---- MODULE Spec2Model ----
(***************************************************************************)
(* Verification model of the smart-ad-selector face detection pipeline:    *)
(* the face-api.js useFaceDetection hook (src/src/hooks/useAdQueue.ts,     *)
(* lines 113-598), its configuration presets (src/src/types/ad.ts), the    *)
(* useAdQueue hook (useAdQueue.ts, lines 5-111), the SmartAdsSystem page   *)
(* that drives them (src/unnamed/part_008) with its useWebcam hook         *)
(* (src/unnamed/part_007), and the temporal tracker of the specification.  *)
(*                                                                         *)
(* Units.  Detector scores, sensitivities and score floors are hundredths  *)
(* (0.35 is 35).  minFaceSizePercent and the aspect ratio bounds are       *)
(* tenths (1% is 10, 0.5 is 5).  scaleBack is in halves (1.5 is 3).  Ages  *)
(* are tenths of a year.  Source-frame lengths of the filter are exact     *)
(* rationals, compared by cross multiplication; the returned bounding box  *)
(* is kept in sixths of a pixel.  JavaScript doubles are modelled by these *)
(* exact values.                                                           *)
(***************************************************************************)
EXTENDS Integers, Sequences, FiniteSets, Bags

VARIABLES
    \* ---- useFaceDetection hook state ----
    loadPc,             \* position of the loadModels effect
    loadingRef,         \* loadingRef.current
    isModelLoaded,      \* useState isModelLoaded
    ssdLoaded,          \* useState ssdLoaded
    error,              \* useState error: "none" (null) or what failed to load
    cfg,                \* getConfig(): detector mode and CCTV flag of the session
    inFlightRef,        \* inFlightRef.current
    racing,             \* the detectionPromise detectFaces awaits in Promise.race
    abandoned,          \* bag of detectionPromises a timeout left behind, unsettled
    statsRef,           \* statsRef.current
    debugInfoRef,       \* debugInfoRef.current
    resolved,           \* what the latest detectFaces promise settled with
    lastCycle,          \* history: the detectionPromise that completed last
    unhandledRejection, \* the interval callback's promise rejected
    \* ---- processDetections applied to drawn inputs ----
    fpc,                \* position of the filter run
    fin,                \* inputs of processDetections
    fout,               \* its result under fin.config
    frelaxed,           \* the relaxed configuration and the result under it
    \* ---- age bucketing applied to drawn inputs ----
    apc,                \* position of the age classification
    age,                \* detection.age, in tenths of a year
    ageGroup,           \* the assigned age group
    \* ---- the useAdQueue hook (useAdQueue.ts lines 5-111) ----
    queue,              \* useState queue: the ads in playing order
    playedAds,          \* useState playedAds: ids, most recently played first
    \* ---- the SmartAdsSystem page and its useWebcam hook ----
    page,               \* the page's state, refs, timers and pending promises
    \* ---- tracking ids over a sequence of detection cycles ----
    occ,                \* one face seen, occluded and seen again
    \* ---- the temporal tracker ----
    tracker,            \* configuration, live tracks, next id, last cycle
    \* ---- pure computations applied to drawn inputs ----
    calc,               \* the inputs and the result
    \* ---- the useAdQueue hook with its log, and the page that plays from it ----
    adq                 \* queue, playedAds, logs, and the ad being played

loadVars == <<loadPc, loadingRef, isModelLoaded, ssdLoaded, error>>
detVars == <<cfg, inFlightRef, racing, abandoned, statsRef, debugInfoRef, resolved, lastCycle,
             unhandledRejection>>
filterVars == <<fpc, fin, fout, frelaxed>>
ageVars == <<apc, age, ageGroup>>
queueVars == <<queue, playedAds>>
hookVars == <<loadVars, detVars, filterVars, ageVars>>
trackVars == <<occ, tracker, calc>>
restVars == <<queueVars, page, trackVars, adq>>
otherVars == <<hookVars, trackVars, adq>>
vars == <<hookVars, restVars>>

----------------------------------------------------------------------------
(* Bounds of the model *)

\* Detection closures that may be unsettled at once (one racing, the rest
\* abandoned by a timeout): a further call waits for one to settle.
MaxCycles == 2
\* Raw faces one detector invocation returns.
MaxFaces == 1
\* Frames counted by statsRef between two FPS recomputations.
MaxFrameCount == 1
\* Oldest age drawn, in years.
MaxAge == 40

Min(a, b) == IF a <= b THEN a ELSE b
Max(a, b) == IF a >= b THEN a ELSE b

----------------------------------------------------------------------------
(* The detection cycle: detectFaces *)

Detectors == {"tiny", "ssd", "dual"}
VideoStates == {"missing", "loading", "ready"}
Pending == {"pass1", "pass2ssd", "pass2tiny"}

\* The local state of a detectionPromise closure (lines 427-434), with the
\* detector of its pending invocation (det), the number of detector
\* invocations it has made (invoked) and what pass 1 returned (pass1Raw).
NoCycle ==
    [pc |-> "free", ssd |-> FALSE, det |-> "none", detectorUsed |-> "tiny",
     passUsed |-> 1, invoked |-> 0, pass1Raw |-> -1, canvas |-> FALSE]

NoDebugInfo == [written |-> FALSE]
NoResolved == [kind |-> "none", n |-> 0]
NoLastCycle == [outcome |-> "none"]

\* Line 407: the video element exists, has a decodable frame, and the
\* essential models are loaded.
CanDetectNoModelCheck(video, loaded) == video = "ready"
CanDetect(video, loaded) == video = "ready" /\ loaded

\* Lines 452-467: the detector pass 1 invokes.
Pass1Detector(config, ssd) ==
    IF config.detector = "ssd" /\ ssd THEN "ssd" ELSE "tiny"

\* Line 474: the condition under which pass 2 is started.
NeedsRescueAnyMode(n, config) == n = 0 /\ config.detector # "tiny"
NeedsRescue(n, config) == n = 0 /\ config.isCCTV /\ config.detector # "tiny"

\* Lines 563-570: how detectFaces settles from the settled race.  A fulfilled
\* race returns its results; a rejected one (detector error, preprocessing
\* error, timeout) is caught and returns [].
SettleNoCatch(outcome, n) ==
    CASE outcome = "fulfilled" -> [kind |-> "results", n |-> n]
      [] OTHER -> [kind |-> "rejected", n |-> 0]
Settle(outcome, n) ==
    CASE outcome = "fulfilled" -> [kind |-> "results", n |-> n]
      [] outcome = "timeout" -> [kind |-> "timeout", n |-> 0]
      [] OTHER -> [kind |-> "caught", n |-> 0]

\* Lines 568-570: the finally block's write to the in-flight guard.
GuardAfterSettleKept(outcome) == outcome # "fulfilled"
GuardAfterSettle(outcome) == FALSE

\* The unsettled closures: <<FALSE, state>> for the racing one, <<TRUE, state>>
\* for each kind of abandoned one.
Closures ==
    {<<FALSE, racing>> : x \in IF racing.pc \in Pending THEN {1} ELSE {}}
        \cup {<<TRUE, cyc>> : cyc \in BagToSet(abandoned)}

\* Detector invocations that are pending (every unsettled closure is
\* suspended on exactly one).
PendingInvocations ==
    BagCardinality(abandoned) + (IF racing.pc \in Pending THEN 1 ELSE 0)

One(cyc) == SetToBag({cyc})

\* The closure cl goes on as new, suspended on its next await.
Suspend(cl, new) ==
    IF cl[1]
    THEN abandoned' = (abandoned (-) One(cl[2])) (+) One(new) /\ UNCHANGED racing
    ELSE racing' = new /\ UNCHANGED abandoned

\* The closure cl settles.
Drop(cl) ==
    IF cl[1]
    THEN abandoned' = abandoned (-) One(cl[2]) /\ UNCHANGED racing
    ELSE racing' = NoCycle /\ UNCHANGED abandoned

\* The interval callback awaits detectFaces without a handler of its own
\* (part_008 lines 152-156): a rejection would leave it as an unhandled one.
Deliver(r) ==
    /\ resolved' = r
    /\ unhandledRejection' = (unhandledRejection \/ r.kind = "rejected")

\* Lines 518-560 of the detectionPromise: processDetections keeps m of the n
\* raw detections (the filter itself is processDetections below), the FPS
\* statistics and the debug info are written, and the closure fulfils with
\* the results.  When the closure still races (lines 563-570) detectFaces
\* returns the results and releases the guard; when a timeout has abandoned
\* it, nobody awaits it any more.  elapsed: a second has passed since
\* statsRef.lastFrameTime (line 538).
Complete(cl, cyc, n, m, elapsed) ==
    /\ elapsed \/ statsRef.frameCount < MaxFrameCount
    /\ statsRef' = [frameCount |-> IF elapsed THEN 0 ELSE statsRef.frameCount + 1]
    /\ debugInfoRef' = [written |-> TRUE, detectorUsed |-> cfg.detector,
                        passUsed |-> cyc.passUsed, rawDetections |-> n,
                        filteredDetections |-> m, trackedFaces |-> m,
                        upscaled |-> cyc.canvas]
    /\ lastCycle' = [outcome |-> "fulfilled", abandoned |-> cl[1],
                     producer |-> cyc.det, passUsed |-> cyc.passUsed,
                     invoked |-> cyc.invoked, pass1Raw |-> cyc.pass1Raw,
                     raw |-> n, returned |-> m]
    /\ Drop(cl)
    /\ IF cl[1]
       THEN UNCHANGED <<inFlightRef, resolved, unhandledRejection>>
       ELSE /\ inFlightRef' = GuardAfterSettle("fulfilled")
            /\ Deliver(Settle("fulfilled", m))
    /\ UNCHANGED <<cfg, loadVars, filterVars, ageVars, restVars>>

\* The detectionPromise rejects: a detector or createProcessedCanvas threw.
\* Nothing of lines 518-560 runs.
Reject(cl) ==
    /\ Drop(cl)
    /\ UNCHANGED <<statsRef, debugInfoRef, lastCycle>>
    /\ IF cl[1]
       THEN UNCHANGED <<inFlightRef, resolved, unhandledRejection>>
       ELSE /\ inFlightRef' = GuardAfterSettle("error")
            /\ Deliver(Settle("error", 0))
    /\ UNCHANGED <<cfg, loadVars, filterVars, ageVars, restVars>>

\* detectFaces, lines 399-405: a call while the guard is set returns [].
CallBusy(v) ==
    /\ inFlightRef
    /\ Deliver([kind |-> "busy", n |-> 0])
    /\ UNCHANGED <<cfg, inFlightRef, racing, abandoned, statsRef, debugInfoRef, lastCycle>>
    /\ UNCHANGED <<loadVars, filterVars, ageVars, restVars>>

\* detectFaces, lines 407-409: no usable frame or no models, returns [].
CallNotReady(v) ==
    /\ ~inFlightRef
    /\ ~CanDetect(v, isModelLoaded)
    /\ Deliver([kind |-> "notReady", n |-> 0])
    /\ UNCHANGED <<cfg, inFlightRef, racing, abandoned, statsRef, debugInfoRef, lastCycle>>
    /\ UNCHANGED <<loadVars, filterVars, ageVars, restVars>>

\* detectFaces, lines 411-467: the guard is set, the timeout is armed and the
\* detectionPromise runs up to its first await, the pass 1 detector
\* invocation.  The closure reads ssdLoaded as captured by the callback.
CallStart(v) ==
    /\ ~inFlightRef
    /\ CanDetect(v, isModelLoaded)
    /\ PendingInvocations < MaxCycles
    /\ LET det == Pass1Detector(cfg, ssdLoaded)
       IN racing' = [pc |-> "pass1", ssd |-> ssdLoaded, det |-> det,
                     detectorUsed |-> det, passUsed |-> 1, invoked |-> 1,
                     pass1Raw |-> -1, canvas |-> FALSE]
    /\ inFlightRef' = TRUE
    /\ UNCHANGED <<cfg, abandoned, statsRef, debugInfoRef, resolved, lastCycle, unhandledRejection>>
    /\ UNCHANGED <<loadVars, filterVars, ageVars, restVars>>

\* One call of detectFaces, as made by a tick of the interval callback
\* (part_008 lines 152-156) on the current video element.
DetectFaces(v) == CallBusy(v) \/ CallNotReady(v) \/ CallStart(v)

\* Pass 1 returned n raw faces and pass 2 is not started (line 474 false).
Pass1Done(cl, n, m, elapsed) ==
    /\ cl[2].pc = "pass1"
    /\ ~NeedsRescue(n, cfg)
    /\ m <= n
    /\ Complete(cl, [cl[2] EXCEPT !.pass1Raw = n], n, m, elapsed)

\* Pass 1 returned nothing and pass 2 starts (lines 474-512): the
\* preprocessed canvas is built and the first rescue detector is invoked,
\* SSD when loaded, else TinyFace with input size 608.
Pass1Rescue(cl) ==
    /\ cl[2].pc = "pass1"
    /\ NeedsRescue(0, cfg)
    /\ LET cyc == cl[2]
           det == IF cyc.ssd THEN "ssd" ELSE "tiny"
       IN Suspend(cl, [cyc EXCEPT !.pc = IF cyc.ssd THEN "pass2ssd" ELSE "pass2tiny",
                                  !.pass1Raw = 0, !.passUsed = 2, !.canvas = TRUE,
                                  !.det = det, !.detectorUsed = det,
                                  !.invoked = @ + 1])
    /\ UNCHANGED <<cfg, inFlightRef, statsRef, debugInfoRef, resolved, lastCycle,
                   unhandledRejection>>
    /\ UNCHANGED <<loadVars, filterVars, ageVars, restVars>>

\* Pass 2 starts but createProcessedCanvas returns null (line 486 false): no
\* rescue detector runs and the empty pass 1 list is processed.
Pass1RescueNoCanvas(cl, elapsed) ==
    /\ cl[2].pc = "pass1"
    /\ NeedsRescue(0, cfg)
    /\ Complete(cl, [cl[2] EXCEPT !.pass1Raw = 0, !.passUsed = 2], 0, 0, elapsed)

\* Pass 2 starts and createProcessedCanvas throws.
Pass1RescueThrows(cl) ==
    /\ cl[2].pc = "pass1"
    /\ NeedsRescue(0, cfg)
    /\ Reject(cl)

\* The rescue SSD invocation returned faces (lines 497-504).
Pass2SsdDone(cl, n, m, elapsed) ==
    /\ cl[2].pc = "pass2ssd"
    /\ n > 0
    /\ m <= n
    /\ Complete(cl, cl[2], n, m, elapsed)

\* The rescue SSD invocation returned nothing: TinyFace 608 is invoked
\* (lines 504-511).
Pass2SsdEmpty(cl) ==
    /\ cl[2].pc = "pass2ssd"
    /\ Suspend(cl, [cl[2] EXCEPT !.pc = "pass2tiny", !.det = "tiny",
                                 !.detectorUsed = "tiny", !.invoked = @ + 1])
    /\ UNCHANGED <<cfg, inFlightRef, statsRef, debugInfoRef, resolved, lastCycle,
                   unhandledRejection>>
    /\ UNCHANGED <<loadVars, filterVars, ageVars, restVars>>

\* The rescue TinyFace invocation returned n faces (lines 507-514).
Pass2TinyDone(cl, n, m, elapsed) ==
    /\ cl[2].pc = "pass2tiny"
    /\ m <= n
    /\ Complete(cl, cl[2], n, m, elapsed)

\* The pending detector invocation throws.
DetectorThrows(cl) ==
    /\ cl[2].pc \in Pending
    /\ Reject(cl)

\* Lines 414-417 and 563-570: the 10 s timer fires while the race is not
\* settled.  The race rejects, detectFaces catches, returns [] and releases
\* the guard.  The detectionPromise is not cancelled: it stays suspended on
\* its detector invocation and resumes whenever that settles.
Timeout ==
    /\ racing.pc \in Pending
    /\ abandoned' = abandoned (+) One(racing)
    /\ racing' = NoCycle
    /\ inFlightRef' = GuardAfterSettle("timeout")
    /\ Deliver(Settle("timeout", 0))
    /\ UNCHANGED <<cfg, statsRef, debugInfoRef, lastCycle>>
    /\ UNCHANGED <<loadVars, filterVars, ageVars, restVars>>

----------------------------------------------------------------------------
(* Model loading: the loadModels effect, lines 164-230 *)

\* Lines 164-167: the effect runs loadModels; loadingRef lets only the first
\* run through.
LoadModelsStartAgain ==
    /\ ~loadingRef \/ loadPc = "done"
    /\ loadingRef' = TRUE
    /\ loadPc' = "backend"
    /\ UNCHANGED <<isModelLoaded, ssdLoaded, error>>
    /\ UNCHANGED <<detVars, filterVars, ageVars, restVars>>
LoadModelsStart ==
    /\ ~loadingRef
    /\ loadingRef' = TRUE
    /\ loadPc' = "backend"
    /\ UNCHANGED <<isModelLoaded, ssdLoaded, error>>
    /\ UNCHANGED <<detVars, filterVars, ageVars, restVars>>

\* Lines 164-166: a further run of the effect on the same hook instance
\* (React runs a mount effect again in development) finds loadingRef set and
\* returns.
LoadModelsAgain ==
    /\ loadingRef
    /\ UNCHANGED vars

\* Lines 177-194: WebGL, else CPU, else 'No TensorFlow backend available'.
BackendReady(ok) ==
    /\ loadPc = "backend"
    /\ IF ok
       THEN loadPc' = "essential" /\ UNCHANGED <<isModelLoaded, error>>
       ELSE loadPc' = "done" /\ error' = "backend" /\ isModelLoaded' = FALSE
    /\ UNCHANGED <<loadingRef, ssdLoaded>>
    /\ UNCHANGED <<detVars, filterVars, ageVars, restVars>>

\* The outcomes of loading the two essential models: both loaded, or the
\* one whose load rejected Promise.all.
EssentialOutcomes == {"loaded", "tinyFaceDetector", "ageGenderNet"}

\* Lines 199-206 and 219-223: TinyFaceDetector and AgeGenderNet, both needed;
\* a failure of either is caught by the outer catch.
EssentialLoadedReleasesGuard(outcome) ==
    /\ loadPc = "essential"
    /\ IF outcome = "loaded"
       THEN loadPc' = "ssd" /\ isModelLoaded' = TRUE /\ UNCHANGED error
       ELSE loadPc' = "done" /\ error' = outcome /\ isModelLoaded' = FALSE
    /\ loadingRef' = FALSE
    /\ UNCHANGED ssdLoaded
    /\ UNCHANGED <<detVars, filterVars, ageVars, restVars>>
EssentialLoaded(outcome) ==
    /\ loadPc = "essential"
    /\ IF outcome = "loaded"
       THEN loadPc' = "ssd" /\ isModelLoaded' = TRUE /\ UNCHANGED error
       ELSE loadPc' = "done" /\ error' = outcome /\ isModelLoaded' = FALSE
    /\ UNCHANGED <<loadingRef, ssdLoaded>>
    /\ UNCHANGED <<detVars, filterVars, ageVars, restVars>>

\* Lines 209-218: SSD Mobilenet is optional; its failure is caught on the
\* spot.
SsdLoadedEscalates(ok) ==
    /\ loadPc = "ssd"
    /\ loadPc' = "done"
    /\ ssdLoaded' = ok
    /\ error' = IF ok THEN "none" ELSE "ssdMobilenetv1"
    /\ isModelLoaded' = ok
    /\ UNCHANGED loadingRef
    /\ UNCHANGED <<detVars, filterVars, ageVars, restVars>>
SsdLoaded(ok) ==
    /\ loadPc = "ssd"
    /\ loadPc' = "done"
    /\ ssdLoaded' = ok
    /\ error' = "none"
    /\ UNCHANGED <<loadingRef, isModelLoaded>>
    /\ UNCHANGED <<detVars, filterVars, ageVars, restVars>>

----------------------------------------------------------------------------
(* The ad queue: the useAdQueue hook, useAdQueue.ts lines 5-111 *)

\* The ads the queue starts with (line 6), each with its targeting.
sampleAds ==
    <<[id |-> "ad1", gender |-> "male", ageGroup |-> "young"],
      [id |-> "ad2", gender |-> "female", ageGroup |-> "all"],
      [id |-> "ad3", gender |-> "all", ageGroup |-> "adult"]>>

\* Array.prototype.indexOf: the 0-based position of x in seq, or -1.
IndexOf(seq, x) ==
    IF \E i \in 1 .. Len(seq) : seq[i] = x
    THEN (CHOOSE i \in 1 .. Len(seq) : seq[i] = x /\ \A j \in 1 .. i - 1 : seq[j] # x) - 1
    ELSE -1

\* scoreAd with tied counts resolved to female and adult.
scoreAdTiesToFemale(ad, demographics, played) ==
    LET dominantGender == IF demographics.male > demographics.female THEN "male" ELSE "female"
        dominantAge == IF demographics.young > demographics.adult THEN "young" ELSE "adult"
        genderScore == IF ad.gender = "all" THEN 1
                       ELSE IF ad.gender = dominantGender THEN 2 ELSE 0
        ageScore == IF ad.ageGroup = "all" THEN 1
                    ELSE IF ad.ageGroup = dominantAge THEN 2 ELSE 0
        recentIndex == IndexOf(played, ad.id)
        penalty == IF recentIndex # -1 THEN Max(0, 3 - recentIndex) ELSE 0
    IN genderScore + ageScore - penalty

\* Lines 18-52: scoreAd.
scoreAd(ad, demographics, played) ==
    LET dominantGender == IF demographics.male >= demographics.female THEN "male" ELSE "female"
        dominantAge == IF demographics.young >= demographics.adult THEN "young" ELSE "adult"
        genderScore == IF ad.gender = "all" THEN 1
                       ELSE IF ad.gender = dominantGender THEN 2 ELSE 0
        ageScore == IF ad.ageGroup = "all" THEN 1
                    ELSE IF ad.ageGroup = dominantAge THEN 2 ELSE 0
        recentIndex == IndexOf(played, ad.id)
        penalty == IF recentIndex # -1 THEN Max(0, 3 - recentIndex) ELSE 0
    IN genderScore + ageScore - penalty

\* ad put into the sequence sorted, which is in non-increasing score order,
\* behind every ad scoring at least as much (Array.prototype.sort is stable).
RECURSIVE InsertByScore(_, _, _, _)
InsertByScore(ad, sorted, demographics, played) ==
    IF sorted = <<>> THEN <<ad>>
    ELSE IF scoreAd(Head(sorted), demographics, played) >= scoreAd(ad, demographics, played)
         THEN <<Head(sorted)>> \o InsertByScore(ad, Tail(sorted), demographics, played)
         ELSE <<ad>> \o sorted

\* Lines 55-60: the ads by descending score.
RECURSIVE SortByScore(_, _, _)
SortByScore(ads, demographics, played) ==
    IF ads = <<>> THEN <<>>
    ELSE InsertByScore(ads[Len(ads)],
                       SortByScore(SubSeq(ads, 1, Len(ads) - 1), demographics, played),
                       demographics, played)

\* slice(0, n).
Slice(seq, n) == SubSeq(seq, 1, Min(n, Len(seq)))

QueueInit == queue = sampleAds /\ playedAds = <<>>

\* The page before it is mounted.
PageOff == page = [kind |-> "off"]
OccOff == occ = [pc |-> "off"]
TrackerOff == tracker = [kind |-> "off"]
CalcOff == calc = [pc |-> "off"]
AdqOff == adq = [kind |-> "off"]
TrackOff == OccOff /\ TrackerOff /\ CalcOff
RestOff == QueueInit /\ PageOff /\ TrackOff /\ AdqOff

\* The demographic counts drawn for reorderQueue.
DrawnDemographics ==
    {[male |-> 1, female |-> 0, young |-> 1, adult |-> 0],
     [male |-> 0, female |-> 2, young |-> 0, adult |-> 2],
     [male |-> 1, female |-> 1, young |-> 1, adult |-> 1]}

\* Lines 54-71: reorderQueue(demographics).
ReorderQueue(demographics) ==
    /\ queue' = SortByScore(queue, demographics, playedAds)
    /\ UNCHANGED playedAds
    /\ UNCHANGED <<otherVars, page>>

\* Lines 73-92: getNextAd().
GetNextAd ==
    /\ IF Len(queue) = 0
       THEN queue' = sampleAds /\ playedAds' = <<>>
       ELSE /\ queue' = Tail(queue) \o <<Head(queue)>>
            /\ playedAds' = Slice(<<Head(queue).id>> \o playedAds, 5)
    /\ UNCHANGED <<otherVars, page>>

----------------------------------------------------------------------------
(* The specification of the hook *)

FilterIdle == [kind |-> "idle"]

DetInit ==
    /\ loadPc = "idle"
    /\ loadingRef = FALSE
    /\ isModelLoaded = FALSE
    /\ ssdLoaded = FALSE
    /\ error = "none"
    /\ cfg \in [detector : Detectors, isCCTV : BOOLEAN]
    /\ inFlightRef = FALSE
    /\ racing = NoCycle
    /\ abandoned = EmptyBag
    /\ statsRef = [frameCount |-> 0]
    /\ debugInfoRef = NoDebugInfo
    /\ resolved = NoResolved
    /\ lastCycle = NoLastCycle
    /\ unhandledRejection = FALSE

FilterOff == fpc = "off" /\ fin = FilterIdle /\ fout = <<>> /\ frelaxed = FilterIdle
AgeOff == apc = "off" /\ age = 0 /\ ageGroup = "none"

Init == DetInit /\ FilterOff /\ AgeOff /\ RestOff

Next ==
    \/ LoadModelsStart
    \/ LoadModelsAgain
    \/ \E ok \in BOOLEAN : BackendReady(ok)
    \/ \E outcome \in EssentialOutcomes : EssentialLoaded(outcome)
    \/ \E ok \in BOOLEAN : SsdLoaded(ok)
    \/ \E v \in VideoStates : CallBusy(v)
    \/ \E v \in VideoStates : CallNotReady(v)
    \/ \E v \in VideoStates : CallStart(v)
    \/ \E cl \in Closures, n \in 0 .. MaxFaces, m \in 0 .. MaxFaces, elapsed \in BOOLEAN :
          Pass1Done(cl, n, m, elapsed)
    \/ \E cl \in Closures : Pass1Rescue(cl)
    \/ \E cl \in Closures, elapsed \in BOOLEAN : Pass1RescueNoCanvas(cl, elapsed)
    \/ \E cl \in Closures : Pass1RescueThrows(cl)
    \/ \E cl \in Closures, n \in 1 .. MaxFaces, m \in 0 .. MaxFaces, elapsed \in BOOLEAN :
          Pass2SsdDone(cl, n, m, elapsed)
    \/ \E cl \in Closures : Pass2SsdEmpty(cl)
    \/ \E cl \in Closures, n \in 0 .. MaxFaces, m \in 0 .. MaxFaces, elapsed \in BOOLEAN :
          Pass2TinyDone(cl, n, m, elapsed)
    \/ \E cl \in Closures : DetectorThrows(cl)
    \/ Timeout

Spec == Init /\ [][Next]_vars

\* A session with its ad queue.  The queue operations are explored in the
\* sessions whose model load has failed.
SessionNext ==
    \/ Next
    \/ error # "none" /\ GetNextAd
    \/ error # "none" /\ \E demographics \in DrawnDemographics : ReorderQueue(demographics)

SpecSession == Init /\ [][SessionNext]_vars

\* The event loop runs a due timer: the 10 s timeout of a racing cycle fires
\* unless the race settles first.
FairSpec == Spec /\ WF_vars(Timeout)

----------------------------------------------------------------------------
(* The geometric/score filter: processDetections, lines 290-396 *)

\* src/src/types/ad.ts lines 115-130 and 132-147, the fields the filter reads.
DEFAULT_CCTV_CONFIG ==
    [minFaceScore |-> 30, sensitivity |-> 35, minFaceSizePx |-> 24,
     minFaceSizePercent |-> 10, aspectRatioMin |-> 5, aspectRatioMax |-> 20,
     minConsecutiveFrames |-> 2, holdFrames |-> 4, maxVelocityPx |-> 150]
DEFAULT_WEBCAM_CONFIG ==
    [minFaceScore |-> 45, sensitivity |-> 40, minFaceSizePx |-> 40,
     minFaceSizePercent |-> 20, aspectRatioMin |-> 6, aspectRatioMax |-> 18,
     minConsecutiveFrames |-> 1, holdFrames |-> 2, maxVelocityPx |-> 200]

\* Math.round: the nearest integer, halves upwards.  v is in units of 1/unit.
Round(v, unit) == (2 * v + unit) \div (2 * unit)

\* v / scaleBack, in sixths of a pixel (scaleBack is s halves).
Sixths(v, s) == (12 * v) \div s

\* Lines 369-378: the age group of a detection, age in tenths of a year.
AgeGroupOfInclusive(a) ==
    LET rounded == Round(a, 10)
    IN IF rounded <= 13 THEN "kid" ELSE IF rounded <= 35 THEN "young" ELSE "adult"
AgeGroupOf(a) ==
    LET rounded == Round(a, 10)
    IN IF rounded < 13 THEN "kid" ELSE IF rounded < 35 THEN "young" ELSE "adult"

\* Line 304.
EffectiveMinScoreMax(config) == Max(config.minFaceScore, config.sensitivity)
EffectiveMinScore(config) == Min(config.minFaceScore, config.sensitivity)

\* Line 323.
LowScore(det, config) == det.score < EffectiveMinScore(config)

\* Line 329: faceWidth < minFaceSizePx || faceHeight < minFaceSizePx, with
\* faceWidth = box.width / scaleBack.
TooSmallPx(det, s, config) ==
    \/ 2 * det.width < config.minFaceSizePx * s
    \/ 2 * det.height < config.minFaceSizePx * s

\* Lines 335-336: facePercent < minFaceSizePercent, with facePercent =
\* faceWidth * faceHeight / (videoWidth * videoHeight) * 100.
TooSmallPercentFlipped(det, s, vw, vh, config) ==
    (2 * det.width) * (2 * det.height) * 1000 > config.minFaceSizePercent * vw * vh * s * s
TooSmallPercent(det, s, vw, vh, config) ==
    (2 * det.width) * (2 * det.height) * 1000 < config.minFaceSizePercent * vw * vh * s * s

\* Lines 342-343: aspectRatio = faceWidth / faceHeight outside its bounds.
BadAspect(det, config) ==
    \/ 10 * det.width < config.aspectRatioMin * det.height
    \/ 10 * det.width > config.aspectRatioMax * det.height

\* Line 349: the scaled-back, ROI-shifted box leaves the frame.
OutOfBounds(det, s, vw, vh, roiOffset) ==
    \/ 2 * det.x + roiOffset.x * s < 0
    \/ 2 * det.y + roiOffset.y * s < 0
    \/ 2 * det.x + roiOffset.x * s + 2 * det.width > vw * s
    \/ 2 * det.y + roiOffset.y * s + 2 * det.height > vh * s

\* Lines 311-356: the filter's verdict on one raw detection.
Passes(det, vw, vh, s, config, roiOffset) ==
    /\ ~LowScore(det, config)
    /\ ~TooSmallPx(det, s, config)
    /\ ~TooSmallPercent(det, s, vw, vh, config)
    /\ ~BadAspect(det, config)
    /\ ~OutOfBounds(det, s, vw, vh, roiOffset)

\* Lines 357-389: the DetectionResult of a detection that passed, its
\* bounding box in sixths of a source-frame pixel.
ToResult(det, vw, vh, s, detectorUsed, roiOffset) ==
    LET boundingBox ==
            [x |-> Max(0, Sixths(det.x, s) + 6 * roiOffset.x),
             y |-> Max(0, Sixths(det.y, s) + 6 * roiOffset.y),
             width |-> Min(Sixths(det.width, s), 6 * vw - Sixths(det.x, s)),
             height |-> Min(Sixths(det.height, s), 6 * vh - Sixths(det.y, s))]
    IN [gender |-> det.gender,
        ageGroup |-> AgeGroupOf(det.age),
        confidence |-> det.genderProbability,
        faceScore |-> det.score,
        boundingBox |-> boundingBox,
        trackingId |-> <<detectorUsed, Round(boundingBox.x, 6), Round(boundingBox.y, 6)>>]

MapResults(dets, vw, vh, s, detectorUsed, roiOffset) ==
    [i \in 1 .. Len(dets) |-> ToResult(dets[i], vw, vh, s, detectorUsed, roiOffset)]

\* processDetections(detections, videoWidth, videoHeight, scaleBack, config,
\* detectorUsed, roiOffset).  An absent roiOffset is the zero offset
\* (roiOffset?.x ?? 0).
processDetections(detections, vw, vh, s, config, detectorUsed, roiOffset) ==
    LET Keep(det) == Passes(det, vw, vh, s, config, roiOffset)
        results == MapResults(SelectSeq(detections, Keep), vw, vh, s, detectorUsed,
                              roiOffset)
    IN [results |-> results, rawCount |-> Len(detections),
        filteredCount |-> Len(results)]

\* The raw detections drawn: scores around the two presets' floors, boxes at
\* and around the size, percentage and aspect thresholds, the 100x100 face,
\* the box covering 40% of a 640x480 frame, positions inside, left of and
\* right of the frame.
DrawnScores == {28, 32, 42, 90}
DrawnSizes ==
    {<<30, 30>>, <<36, 36>>, <<48, 48>>, <<60, 60>>, <<100, 100>>, <<384, 320>>,
     <<100, 40>>, <<55, 100>>}
DrawnPositions == {<<0, 0>>, <<-6, 0>>, <<300, 150>>, <<600, 100>>}
DrawnDetections ==
    {[x |-> p[1], y |-> p[2], width |-> sz[1], height |-> sz[2], score |-> sc,
      age |-> 274, gender |-> "male", genderProbability |-> 90] :
        p \in DrawnPositions, sz \in DrawnSizes, sc \in DrawnScores}
DrawnScales == {2, 3}
DrawnRoiOffsets == {[x |-> 0, y |-> 0], [x |-> 64, y |-> 48]}
DrawnConfigs == {DEFAULT_CCTV_CONFIG, DEFAULT_WEBCAM_CONFIG}

FilterFields ==
    {"minFaceScore", "sensitivity", "minFaceSizePx", "minFaceSizePercent",
     "aspectRatioMin", "aspectRatioMax"}

\* config with the thresholds named in fields made less restrictive.
Relaxed(config, fields) ==
    [minFaceScore |-> config.minFaceScore - (IF "minFaceScore" \in fields THEN 10 ELSE 0),
     sensitivity |-> config.sensitivity - (IF "sensitivity" \in fields THEN 10 ELSE 0),
     minFaceSizePx |-> config.minFaceSizePx - (IF "minFaceSizePx" \in fields THEN 8 ELSE 0),
     minFaceSizePercent |->
        config.minFaceSizePercent - (IF "minFaceSizePercent" \in fields THEN 5 ELSE 0),
     aspectRatioMin |-> config.aspectRatioMin - (IF "aspectRatioMin" \in fields THEN 1 ELSE 0),
     aspectRatioMax |-> config.aspectRatioMax + (IF "aspectRatioMax" \in fields THEN 5 ELSE 0)]

DetOff ==
    /\ loadPc = "done"
    /\ loadingRef = TRUE
    /\ isModelLoaded = TRUE
    /\ ssdLoaded = TRUE
    /\ error = "none"
    /\ cfg = [detector |-> "dual", isCCTV |-> TRUE]
    /\ inFlightRef = FALSE
    /\ racing = NoCycle
    /\ abandoned = EmptyBag
    /\ statsRef = [frameCount |-> 0]
    /\ debugInfoRef = NoDebugInfo
    /\ resolved = NoResolved
    /\ lastCycle = NoLastCycle
    /\ unhandledRejection = FALSE

FilterInit ==
    /\ fpc = "in"
    /\ fin \in [detections : {<<d>> : d \in DrawnDetections},
                videoWidth : {640}, videoHeight : {480},
                scaleBack : DrawnScales, config : DrawnConfigs,
                detectorUsed : {"tiny"}, roiOffset : DrawnRoiOffsets]
    /\ fout = <<>>
    /\ frelaxed = FilterIdle

\* processDetections runs on the drawn input.
RunFilter ==
    /\ fpc = "in"
    /\ fpc' = "filtered"
    /\ fout' = processDetections(fin.detections, fin.videoWidth, fin.videoHeight,
                                 fin.scaleBack, fin.config, fin.detectorUsed,
                                 fin.roiOffset)
    /\ UNCHANGED <<fin, frelaxed, loadVars, detVars, ageVars, restVars>>

\* processDetections runs again on the same input under a less restrictive
\* configuration.
RunRelaxed(fields) ==
    /\ fpc = "filtered"
    /\ fpc' = "relaxed"
    /\ LET config == Relaxed(fin.config, fields)
       IN frelaxed' =
            [kind |-> "relaxed", config |-> config,
             out |-> processDetections(fin.detections, fin.videoWidth,
                                       fin.videoHeight, fin.scaleBack, config,
                                       fin.detectorUsed, fin.roiOffset)]
    /\ UNCHANGED <<fin, fout, loadVars, detVars, ageVars, restVars>>

FilterNext == RunFilter \/ \E fields \in SUBSET FilterFields : RunRelaxed(fields)

InitFilter == DetOff /\ FilterInit /\ AgeOff /\ RestOff

SpecFilter == InitFilter /\ [][FilterNext]_vars

----------------------------------------------------------------------------
(* Age bucketing applied to every drawn age *)

AgeInit == apc = "in" /\ age \in 0 .. 10 * MaxAge /\ ageGroup = "none"

Classify ==
    /\ apc = "in"
    /\ apc' = "out"
    /\ ageGroup' = AgeGroupOf(age)
    /\ UNCHANGED <<age, loadVars, detVars, filterVars, restVars>>

AgeNext == Classify

InitAge == DetOff /\ FilterOff /\ AgeInit /\ RestOff

SpecAge == InitAge /\ [][AgeNext]_vars

----------------------------------------------------------------------------
(* From the detector's output to the returned boxes: detectFaces, lines
   424-442, 479-491 and 518-528 *)

\* Lines 437-442: the ROI offset in pixels, roi.x and roi.y in tenths of the
\* frame; absent (the zero offset) when the ROI is disabled.
RoiOffsetOf(roi, vw, vh) ==
    IF roi.enabled
    THEN [x |-> (roi.x * vw) \div 10, y |-> (roi.y * vh) \div 10]
    ELSE [x |-> 0, y |-> 0]

\* Lines 432 and 491: scaleBack (in halves) is 1 unless pass 2 got its
\* processed canvas, and then config.upscale.
ScaleBackOf(canvas, upscale) == IF canvas THEN upscale ELSE 2

DrawnRois ==
    {[enabled |-> FALSE, x |-> 0, y |-> 0], [enabled |-> TRUE, x |-> 1, y |-> 1]}
DrawnUpscales == {2, 3}

\* A cycle whose detector has answered: canvas tells whether the detections
\* come from pass 2's processed canvas (upscaled, cropped to the ROI when the
\* ROI is enabled) or from pass 1 on the raw frame.
BoxInit ==
    /\ fpc = "detected"
    /\ fin \in [detections : {<<d>> : d \in DrawnDetections},
                videoWidth : {640}, videoHeight : {480},
                canvas : BOOLEAN, upscale : DrawnUpscales, roi : DrawnRois,
                config : {DEFAULT_CCTV_CONFIG}, detectorUsed : {"tiny"}]
    /\ fout = <<>>
    /\ frelaxed = FilterIdle

\* Lines 518-528: the cycle hands its detections to processDetections.
ProcessCycle ==
    /\ fpc = "detected"
    /\ fpc' = "returned"
    /\ fout' = processDetections(fin.detections, fin.videoWidth, fin.videoHeight,
                                 ScaleBackOf(fin.canvas, fin.upscale), fin.config,
                                 fin.detectorUsed,
                                 RoiOffsetOf(fin.roi, fin.videoWidth, fin.videoHeight))
    /\ UNCHANGED <<fin, frelaxed, loadVars, detVars, ageVars, restVars>>

BoxNext == ProcessCycle

InitBox == DetOff /\ BoxInit /\ AgeOff /\ RestOff

SpecBox == InitBox /\ [][BoxNext]_vars

----------------------------------------------------------------------------
(* The SmartAdsSystem page (src/unnamed/part_008, lines 22-597) with its
   useWebcam hook (src/unnamed/part_007, lines 160-237).  A handler's state
   updates and the run of the capture-window effect they schedule are one
   step.  The interval callback's detectFaces call settles with a drawn list
   of detection results.  The ad is playing.  Test mode is started on the
   camera.  The fields window, windowSeen, windowDemo, reorders, reorderArg,
   cycle, seenStreak, testSession, tests and toggles are history kept for
   the properties and the bounds; the code has no such fields. *)

AdDuration == 4
MaxStarts == 2
MaxDetecting == 1
MaxPlays == 2

\* Lines 61-67 and 91: the initial demographic counts.
NoViewers == [male |-> 0, female |-> 0, kid |-> 0, young |-> 0, adult |-> 0]

NoPageCycle == [done |-> FALSE, results |-> <<>>]

CountWhere(results, field, value) ==
    Cardinality({i \in 1 .. Len(results) : results[i][field] = value})

\* Lines 163-169: the counts of one cycle's results.
newDemographics(results) ==
    [male |-> CountWhere(results, "gender", "male"),
     female |-> CountWhere(results, "gender", "female"),
     kid |-> CountWhere(results, "ageGroup", "kid"),
     young |-> CountWhere(results, "ageGroup", "young"),
     adult |-> CountWhere(results, "ageGroup", "adult")]

\* What a detectFaces call of the interval callback resolves with.
DrawnResults ==
    {<<>>,
     <<[gender |-> "male", ageGroup |-> "young"]>>,
     <<[gender |-> "female", ageGroup |-> "adult"], [gender |-> "male", ageGroup |-> "kid"]>>}

\* Lines 24-27: the default capture window, and a window that ends before the ad.
DrawnCaptureSettings ==
    {[startPercent |-> 60, endPercent |-> 100], [startPercent |-> 50, endPercent |-> 75]}

\* Lines 374-375: Math.floor(duration * percent / 100).
captureStart(p) == (AdDuration * p.captureSettings.startPercent) \div 100
captureEnd(p) == (AdDuration * p.captureSettings.endPercent) \div 100

\* Lines 285-287.
inCaptureWindow(p) == p.currentTime >= captureStart(p) /\ p.currentTime <= captureEnd(p)

\* MediaStreams whose tracks are running: the one in streamRef and those a
\* later startWebcam replaced in streamRef without stopping them.
LiveStreams(p) == (IF p.streamRef THEN 1 ELSE 0) + p.leaked

PendingStarts(p) == p.gumPending + p.playPending + p.testGum + p.testPlay

\* part_007 lines 167-172: startWebcam up to its await of getUserMedia.
startWebcam(p) == [p EXCEPT !.gumPending = @ + 1]

\* part_007 lines 196-205: stopWebcam.
stopWebcam(p) == [p EXCEPT !.streamRef = FALSE, !.isActive = FALSE]

\* Lines 147-176: startDetectionLoop clears the interval in the ref and sets a new one.
startDetectionLoop(p) == [p EXCEPT !.captureIntervalRef = TRUE]

\* Lines 178-183: stopDetectionLoop.
stopDetectionLoop(p) == [p EXCEPT !.captureIntervalRef = FALSE]

\* Lines 283-289 and 314: the branch the capture-window effect takes.
StartsCapture(p) == ~p.manualMode /\ inCaptureWindow(p) /\ ~p.isCapturingRef
EndsCapture(p) == ~p.manualMode /\ ~inCaptureWindow(p) /\ p.isCapturingRef

\* Line 325-328: the effect calls reorderQueue(lastDemographicsRef.current).
EffectReorders(p) ==
    EndsCapture(p) /\ p.lastDemographicsRef.male + p.lastDemographicsRef.female > 0

\* Lines 282-331: the capture-window effect, run on the page p.
CaptureWindowEffect(p) ==
    IF StartsCapture(p)
    THEN startWebcam([p EXCEPT !.isCapturingRef = TRUE,
                               !.demographics = NoViewers,
                               !.currentViewers = <<>>,
                               !.window = "open",
                               !.windowSeen = FALSE,
                               !.windowDemo = NoViewers,
                               !.reorders = 0,
                               !.reorderArg = NoViewers,
                               !.cycle = NoPageCycle])
    ELSE IF EndsCapture(p)
    THEN LET q == stopWebcam(stopDetectionLoop([p EXCEPT !.isCapturingRef = FALSE,
                                                         !.window = "closed",
                                                         !.cycle = NoPageCycle]))
         IN IF EffectReorders(p)
            THEN [q EXCEPT !.reorders = @ + 1, !.reorderArg = p.lastDemographicsRef]
            ELSE q
    ELSE p

\* The queue after the effect has run on the page p.
QueueAfterEffect(p) ==
    IF EffectReorders(p) THEN SortByScore(queue, p.lastDemographicsRef, playedAds) ELSE queue

PageInit ==
    /\ \E settings \in DrawnCaptureSettings,
          minFrames \in {DEFAULT_WEBCAM_CONFIG.minConsecutiveFrames,
                         DEFAULT_CCTV_CONFIG.minConsecutiveFrames} :
          page = [kind |-> "on",
                  captureSettings |-> settings,
                  minConsecutiveFrames |-> minFrames,
                  currentTime |-> 0,
                  plays |-> 0,
                  isCapturingRef |-> FALSE,
                  captureIntervalRef |-> FALSE,
                  loopTimers |-> 0,
                  streamRef |-> FALSE,
                  leaked |-> 0,
                  isActive |-> FALSE,
                  gumPending |-> 0,
                  playPending |-> 0,
                  detecting |-> 0,
                  demographics |-> NoViewers,
                  currentViewers |-> <<>>,
                  lastDemographicsRef |-> NoViewers,
                  window |-> "none",
                  windowSeen |-> FALSE,
                  windowDemo |-> NoViewers,
                  reorders |-> 0,
                  reorderArg |-> NoViewers,
                  cycle |-> NoPageCycle,
                  seenStreak |-> 0,
                  manualMode |-> FALSE,
                  testMode |-> FALSE,
                  testModeTimeoutRef |-> FALSE,
                  leakedTestTimers |-> 0,
                  testGum |-> 0,
                  testPlay |-> 0,
                  testSession |-> FALSE,
                  tests |-> 0,
                  toggles |-> 0]
    /\ QueueInit

\* Lines 343-345: handleTimeUpdate(time), and the effect on the new time.
HandleTimeUpdate ==
    /\ page.currentTime < AdDuration
    /\ LET p == [page EXCEPT !.currentTime = @ + 1]
       IN /\ StartsCapture(p) => PendingStarts(p) < MaxStarts
          /\ page' = CaptureWindowEffect(p)
          /\ queue' = QueueAfterEffect(p)
    /\ UNCHANGED <<playedAds, otherVars>>

\* Lines 368-386: handleAdEnded, and the effect on the next ad at time 0.
handleAdEnded ==
    /\ page.plays < MaxPlays
    /\ LET p == stopWebcam(stopDetectionLoop(
                    [page EXCEPT !.isCapturingRef = FALSE,
                                 !.window = IF page.isCapturingRef THEN "closed" ELSE @,
                                 !.cycle = NoPageCycle,
                                 !.currentTime = 0,
                                 !.plays = @ + 1]))
       IN /\ StartsCapture(p) => PendingStarts(p) < MaxStarts
          /\ page' = CaptureWindowEffect(p)
    /\ IF Len(queue) = 0
       THEN queue' = sampleAds /\ playedAds' = <<>>
       ELSE /\ queue' = Tail(queue) \o <<Head(queue)>>
            /\ playedAds' = Slice(<<Head(queue).id>> \o playedAds, 5)
    /\ UNCHANGED otherVars

\* The player's onEnded at the end of the ad.
AdEnded == page.currentTime = AdDuration /\ handleAdEnded

\* Lines 388-391: handleSkip.
HandleSkip == page.currentTime < AdDuration /\ handleAdEnded

\* part_007 lines 173-181 and 187-193, part_008 lines 301-311: getUserMedia
\* settles.  Granted, the stream goes into streamRef and the video element and
\* startWebcam awaits play(); refused, startWebcam returns false and the
\* effect's continuation starts the detection loop at once.
GetUserMediaSettles(granted) ==
    /\ page.gumPending > 0
    /\ page' = IF granted
               THEN [page EXCEPT !.gumPending = @ - 1,
                                 !.playPending = @ + 1,
                                 !.leaked = IF page.streamRef THEN @ + 1 ELSE @,
                                 !.streamRef = TRUE]
               ELSE startDetectionLoop([page EXCEPT !.gumPending = @ - 1])
    /\ UNCHANGED <<queueVars, otherVars>>

\* part_007 lines 180-193, part_008 lines 301-311: play() settles.  Resolved,
\* startWebcam sets isActive and returns true, and the continuation sets the
\* 500 ms timer; rejected, it returns false and the loop starts at once.
PlaySettles(played) ==
    /\ page.playPending > 0
    /\ page' = IF played
               THEN [page EXCEPT !.playPending = @ - 1,
                                 !.isActive = TRUE,
                                 !.loopTimers = @ + 1]
               ELSE startDetectionLoop([page EXCEPT !.playPending = @ - 1])
    /\ UNCHANGED <<queueVars, otherVars>>

\* Lines 304-306: the 500 ms timer fires.
LoopTimerFires ==
    /\ page.loopTimers > 0
    /\ page' = startDetectionLoop([page EXCEPT !.loopTimers = @ - 1])
    /\ UNCHANGED <<queueVars, otherVars>>

\* Lines 152-156: the interval callback up to its await of detectFaces.
IntervalTick ==
    /\ page.captureIntervalRef
    /\ page.detecting < MaxDetecting
    /\ page' = IF ~page.isCapturingRef THEN page ELSE [page EXCEPT !.detecting = @ + 1]
    /\ UNCHANGED <<queueVars, otherVars>>

\* Lines 156-174: detectFaces resolves and the callback publishes the results.
DetectionResolves(results) ==
    /\ page.detecting > 0
    /\ LET p == [page EXCEPT !.detecting = @ - 1,
                             !.cycle = IF page.isCapturingRef
                                       THEN [done |-> TRUE, results |-> results]
                                       ELSE @,
                             !.seenStreak = IF Len(results) > 0
                                            THEN Min(@ + 1, DEFAULT_CCTV_CONFIG.minConsecutiveFrames)
                                            ELSE 0,
                             !.windowSeen = @ \/ (page.isCapturingRef /\ Len(results) > 0),
                             !.windowDemo = IF page.isCapturingRef /\ Len(results) > 0
                                            THEN newDemographics(results) ELSE @]
       IN page' = IF Len(results) > 0
                  THEN [p EXCEPT !.currentViewers = results,
                                 !.demographics = newDemographics(results),
                                 !.lastDemographicsRef = newDemographics(results)]
                  ELSE p
    /\ UNCHANGED <<queueVars, otherVars>>

PageNext ==
    \/ HandleTimeUpdate
    \/ AdEnded
    \/ HandleSkip
    \/ \E granted \in BOOLEAN : GetUserMediaSettles(granted)
    \/ \E played \in BOOLEAN : PlaySettles(played)
    \/ LoopTimerFires
    \/ IntervalTick
    \/ \E results \in DrawnResults : DetectionResolves(results)

InitPage == DetOff /\ FilterOff /\ AgeOff /\ PageInit /\ TrackOff /\ AdqOff

SpecPage == InitPage /\ [][PageNext]_vars

----------------------------------------------------------------------------
(* Test mode and manual mode of the page: part_008 lines 185-270 *)

\* Test starts and manual mode toggles in one behaviour.
MaxTests == 2
MaxToggles == 2

\* Lines 237-249: stopTestMode.
stopTestMode(p) ==
    stopWebcam(stopDetectionLoop([p EXCEPT !.testModeTimeoutRef = FALSE,
                                           !.isCapturingRef = FALSE,
                                           !.testMode = FALSE,
                                           !.testSession = FALSE]))

\* Lines 186-198 and 220-222: startTestMode calls startDetectionWithSource,
\* which runs up to its await of startWebcam().  The source selector is
\* disabled in manual mode (line 467).
StartTestMode ==
    /\ ~page.manualMode
    /\ ~page.testMode
    /\ PendingStarts(page) < MaxStarts
    /\ page.tests < MaxTests
    /\ page' = [page EXCEPT !.testMode = TRUE,
                            !.tests = @ + 1,
                            !.demographics = NoViewers,
                            !.currentViewers = <<>>,
                            !.testGum = @ + 1]
    /\ UNCHANGED <<queueVars, otherVars>>

\* part_007 lines 173-181 and 187-193, part_008 lines 199 and 213-216:
\* getUserMedia of a test start settles.  Refused, startWebcam returns false
\* and startDetectionWithSource clears testMode.
TestGetUserMediaSettles(granted) ==
    /\ page.testGum > 0
    /\ page' = IF granted
               THEN [page EXCEPT !.testGum = @ - 1,
                                 !.testPlay = @ + 1,
                                 !.leaked = IF page.streamRef THEN @ + 1 ELSE @,
                                 !.streamRef = TRUE]
               ELSE [page EXCEPT !.testGum = @ - 1, !.testMode = FALSE]
    /\ UNCHANGED <<queueVars, otherVars>>

\* part_007 lines 180-193, part_008 lines 199-216: play() of a test start
\* settles.  Resolved, startWebcam returns true and startDetectionWithSource
\* sets isCapturingRef, the 500 ms timer of the loop and the 30 s timer kept
\* in testModeTimeoutRef; rejected, it clears testMode.
TestPlaySettles(played) ==
    /\ page.testPlay > 0
    /\ page' = IF played
               THEN [page EXCEPT !.testPlay = @ - 1,
                                 !.isActive = TRUE,
                                 !.isCapturingRef = TRUE,
                                 !.loopTimers = @ + 1,
                                 !.leakedTestTimers = IF page.testModeTimeoutRef
                                                      THEN @ + 1 ELSE @,
                                 !.testModeTimeoutRef = TRUE,
                                 !.testSession = TRUE]
               ELSE [page EXCEPT !.testPlay = @ - 1, !.testMode = FALSE]
    /\ UNCHANGED <<queueVars, otherVars>>

\* Line 466: the user stops the test.
StopTestMode ==
    /\ page.testMode
    /\ page' = stopTestMode(page)
    /\ UNCHANGED <<queueVars, otherVars>>

\* Lines 209-212: the 30 s timer kept in testModeTimeoutRef fires.
TestTimeoutFires ==
    /\ page.testModeTimeoutRef
    /\ page' = stopTestMode(page)
    /\ UNCHANGED <<queueVars, otherVars>>

\* Lines 209-212: a 30 s timer that a later test start has replaced in
\* testModeTimeoutRef fires.
LeakedTestTimeoutFires ==
    /\ page.leakedTestTimers > 0
    /\ page' = stopTestMode([page EXCEPT !.leakedTestTimers = @ - 1])
    /\ UNCHANGED <<queueVars, otherVars>>

\* Lines 251-270: handleManualModeToggle(enabled), and the capture-window
\* effect on the new manualMode.
HandleManualModeToggle ==
    LET enabled == ~page.manualMode
        toggled == [page EXCEPT !.manualMode = enabled, !.toggles = @ + 1]
        stopped == IF page.testMode THEN stopTestMode(toggled) ELSE toggled
        idle == IF stopped.isCapturingRef
                THEN stopWebcam(stopDetectionLoop(
                         [stopped EXCEPT !.isCapturingRef = FALSE,
                                         !.window = "closed",
                                         !.cycle = NoPageCycle]))
                ELSE stopped
        p == IF enabled
             THEN [idle EXCEPT !.demographics = NoViewers, !.currentViewers = <<>>]
             ELSE toggled
    IN /\ page.toggles < MaxToggles
       /\ StartsCapture(p) => PendingStarts(p) < MaxStarts
       /\ page' = CaptureWindowEffect(p)
       /\ queue' = QueueAfterEffect(p)
       /\ UNCHANGED <<playedAds, otherVars>>

\* The results detectFaces resolves with here: no face or one face.
DrawnModeResults == {results \in DrawnResults : Len(results) <= 1}

\* The playback of one ad with the mode controls in use.
ModesNext ==
    \/ HandleTimeUpdate
    \/ \E granted \in BOOLEAN : GetUserMediaSettles(granted)
    \/ \E played \in BOOLEAN : PlaySettles(played)
    \/ LoopTimerFires
    \/ IntervalTick
    \/ \E results \in DrawnModeResults : DetectionResolves(results)
    \/ StartTestMode
    \/ \E granted \in BOOLEAN : TestGetUserMediaSettles(granted)
    \/ \E played \in BOOLEAN : TestPlaySettles(played)
    \/ StopTestMode
    \/ TestTimeoutFires
    \/ LeakedTestTimeoutFires
    \/ HandleManualModeToggle

\* The page with the capture window that ends before the ad.
InitModes ==
    /\ InitPage
    /\ page.captureSettings.endPercent < 100
    /\ page.minConsecutiveFrames = DEFAULT_WEBCAM_CONFIG.minConsecutiveFrames

SpecModes == InitModes /\ [][ModesNext]_vars

----------------------------------------------------------------------------
(* Tracking ids over a sequence of cycles: processDetections, lines 380-388,
   applied to one face that is detected, missed for k <= holdFrames cycles and
   detected again, displaced by at most maxVelocityPx * k.  Every cycle runs
   processDetections on a 640x480 frame at scale 1 without a region of
   interest. *)

DrawnFacePositions == {<<0, 0>>, <<100, 50>>, <<300, 150>>}
DrawnDisplacements == {0, 10, 150}

\* The face as the detector reports it at (x, y).
FaceAt(x, y) ==
    [x |-> x, y |-> y, width |-> 100, height |-> 100, score |-> 90, age |-> 274,
     gender |-> "male", genderProbability |-> 90]

\* The tracking ids in the results of one cycle.
TrackingIds(detections) ==
    LET results == processDetections(detections, 640, 480, 2, occ.config, "tiny",
                                     [x |-> 0, y |-> 0]).results
    IN {results[i].trackingId : i \in 1 .. Len(results)}

OccInit ==
    \E config \in DrawnConfigs, p \in DrawnFacePositions, d \in DrawnDisplacements :
        \E k \in 1 .. config.holdFrames :
            /\ d <= config.maxVelocityPx * k
            /\ occ = [pc |-> "first", config |-> config, position |-> p,
                      displacement |-> d, k |-> k, missed |-> 0, reported |-> <<>>]

\* The cycle in which the face is first detected.
FaceDetected ==
    /\ occ.pc = "first"
    /\ occ' = [occ EXCEPT !.pc = "occluded",
                          !.reported = Append(@, TrackingIds(
                              <<FaceAt(occ.position[1], occ.position[2])>>))]
    /\ UNCHANGED <<hookVars, queueVars, adq, page, tracker, calc>>

\* A cycle in which the detector misses the face.
FaceMissed ==
    /\ occ.pc = "occluded"
    /\ occ.missed < occ.k
    /\ occ' = [occ EXCEPT !.missed = @ + 1,
                          !.reported = Append(@, TrackingIds(<<>>))]
    /\ UNCHANGED <<hookVars, queueVars, adq, page, tracker, calc>>

\* The cycle in which the face is detected again, displaced along x.
FaceReappears ==
    /\ occ.pc = "occluded"
    /\ occ.missed = occ.k
    /\ occ' = [occ EXCEPT !.pc = "done",
                          !.reported = Append(@, TrackingIds(
                              <<FaceAt(occ.position[1] + occ.displacement,
                                       occ.position[2])>>))]
    /\ UNCHANGED <<hookVars, queueVars, adq, page, tracker, calc>>

OccNext == FaceDetected \/ FaceMissed \/ FaceReappears

InitOcc ==
    DetOff /\ FilterOff /\ AgeOff /\ QueueInit /\ PageOff /\ AdqOff /\ OccInit /\ TrackerOff /\ CalcOff

SpecOcc == InitOcc /\ [][OccNext]_vars

----------------------------------------------------------------------------
(* The temporal tracker and the session aggregator.  src/ holds their
   declarations only (TrackedFace, ad.ts lines 59-72; minConsecutiveFrames,
   holdFrames and maxVelocityPx, lines 106-109); the per-cycle algorithm is
   taken from the specification, sections 4.6 and 4.7.  Faces are boxes 100
   wide and high on one horizontal line, so a box is its x coordinate; one
   cycle is one frame.  The demographic vote of a track is left out: it does
   not bear on which tracks exist.  The field last is history kept for the
   properties. *)

MaxDetections == 2
MaxTracks == 2
MaxHits == 2

Abs(v) == IF v < 0 THEN -v ELSE v

\* The IoU a match has to exceed, in tenths.
IouThreshold == 3

DrawnTrackPositions == {0, 40}

\* The detections of a frame, from left to right.
DrawnFrames ==
    {f \in UNION {[1 .. n -> DrawnTrackPositions] : n \in 0 .. MaxDetections} :
        \A i \in 1 .. Len(f) - 1 : f[i] <= f[i + 1]}

\* Step 1: predictedBox = lastBox + velocity * elapsedFrames.
PredictedX(track) == track.x + track.velocity

\* Step 2: the width of the intersection of two boxes at a and b; their IoU
\* is Overlap / (200 - Overlap).
Overlap(a, b) == Max(0, 100 - Abs(a - b))

\* Step 3: the IoU exceeds the threshold and the displacement from the
\* track's last box does not exceed maxVelocityPx.
Acceptable(track, x, config) ==
    /\ 10 * Overlap(PredictedX(track), x) > IouThreshold * (200 - Overlap(PredictedX(track), x))
    /\ Abs(x - track.x) <= config.maxVelocityPx

TrackOf(tracks, id) == CHOOSE t \in tracks : t.id = id

\* Step 3: the pair <<track id, detection index>> c comes before d in
\* descending IoU order (equal IoUs by track id, then by detection index).
Before(c, d, tracks, detections) ==
    LET oc == Overlap(PredictedX(TrackOf(tracks, c[1])), detections[c[2]])
        od == Overlap(PredictedX(TrackOf(tracks, d[1])), detections[d[2]])
    IN \/ oc > od
       \/ oc = od /\ c[1] < d[1]
       \/ oc = od /\ c[1] = d[1] /\ c[2] <= d[2]

AcceptablePairs(tracks, detections, config) ==
    {c \in {t.id : t \in tracks} \X (1 .. Len(detections)) :
        Acceptable(TrackOf(tracks, c[1]), detections[c[2]], config)}

\* Step 3: greedy matching; a track or a detection already in a match is not
\* used again.
GreedyMatchReusing(tracks, detections, config, matches) ==
    AcceptablePairs(tracks, detections, config)
RECURSIVE GreedyMatch(_, _, _, _)
GreedyMatch(tracks, detections, config, matches) ==
    LET free == {c \in AcceptablePairs(tracks, detections, config) :
                    \A m \in matches : m[1] # c[1] /\ m[2] # c[2]}
    IN IF free = {} THEN matches
       ELSE LET best == CHOOSE c \in free :
                            \A d \in free : Before(c, d, tracks, detections)
            IN GreedyMatch(tracks, detections, config, matches \cup {best})

\* Step 5: the track has been missed for more than holdFrames cycles.
ExpiredAtHold(missedFrames, config) == missedFrames >= config.holdFrames
Expired(missedFrames, config) == missedFrames > config.holdFrames

\* Step 4: a matched track takes the detection's box.
Matched(track, x) ==
    [track EXCEPT !.x = x, !.velocity = x - track.x, !.consecutiveHits = @ + 1,
                  !.missedFrames = 0]

\* Step 5: an unmatched track is held at its predicted position.
Held(track) == [track EXCEPT !.x = PredictedX(track), !.missedFrames = @ + 1]

\* Step 6: the number of detections below index i that no match uses.
UnmatchedBelow(i, matches) ==
    Cardinality({j \in 1 .. i - 1 : \A m \in matches : m[2] # j})

\* Section 4.7: currentSnapshot() counts the confirmed tracks.
Confirmed(track, config) == track.consecutiveHits >= config.minConsecutiveFrames
currentSnapshot == {t \in tracker.tracks : Confirmed(t, tracker.config)}

NoTrackerCycle == [kind |-> "none"]

TrackerInit ==
    \E config \in DrawnConfigs :
        tracker = [config |-> config, tracks |-> {}, nextId |-> 1, last |-> NoTrackerCycle]

\* One tracking cycle on the detections of a frame.
TrackCycle(detections) ==
    \E matches \in {GreedyMatch(tracker.tracks, detections, tracker.config, {})} :
        LET tracks == tracker.tracks
            config == tracker.config
            matchedIds == {m[1] : m \in matches}
            unmatched == {i \in 1 .. Len(detections) : \A m \in matches : m[2] # i}
            missed == {t \in tracks : t.id \notin matchedIds}
            expired == {t \in missed : Expired(t.missedFrames + 1, config)}
            updated == {Matched(TrackOf(tracks, m[1]), detections[m[2]]) : m \in matches}
            held == {Held(t) : t \in missed \ expired}
            created == {[id |-> tracker.nextId + UnmatchedBelow(i, matches),
                         x |-> detections[i], velocity |-> 0,
                         consecutiveHits |-> 1, missedFrames |-> 0] : i \in unmatched}
        IN /\ tracker.nextId + Cardinality(unmatched) <= MaxTracks + 1
           /\ \A m \in matches : TrackOf(tracks, m[1]).consecutiveHits < MaxHits
           /\ tracker' = [tracker EXCEPT
                             !.tracks = updated \cup held \cup created,
                             !.nextId = @ + Cardinality(unmatched),
                             !.last = [kind |-> "cycle",
                                       detections |-> detections,
                                       matches |-> matches,
                                       created |-> {t.id : t \in created},
                                       missed |-> {<<t.id, t.missedFrames + 1>> :
                                                      t \in missed}]]
           /\ UNCHANGED <<hookVars, queueVars, adq, page, occ, calc>>

TrackerNext == \E detections \in DrawnFrames : TrackCycle(detections)

InitTracker ==
    DetOff /\ FilterOff /\ AgeOff /\ QueueInit /\ PageOff /\ AdqOff /\ OccOff /\ TrackerInit /\ CalcOff

SpecTracker == InitTracker /\ [][TrackerNext]_vars

----------------------------------------------------------------------------
(* The gender bias correction of the demographic post-processor.  The code
   is in utils/genderHeuristics.ts, which src/ does not hold; the formula is
   taken from the specification, section 4.5.  The raw female probability p
   is in units of 1/ProbSteps, the boost factor b in hundredths, the
   corrected probability in units of 1/(100 * ProbSteps). *)

ProbSteps == 20

\* The largest female boost factor, 0.30.
MaxBoost == 30

\* correctedFemaleProb = min(1, rawFemaleProb + b * (1 - rawFemaleProb)).
correctedFemaleProbLowered(p, b) == Min(100 * ProbSteps, 100 * p - b * (ProbSteps - p))
correctedFemaleProb(p, b) == Min(100 * ProbSteps, 100 * p + b * (ProbSteps - p))

BoostInit ==
    \E p \in 0 .. ProbSteps, b \in 0 .. MaxBoost :
        calc = [pc |-> "raw", rawFemaleProb |-> p, boost |-> b, corrected |-> 0]

\* The correction is applied to the drawn probability.
ApplyBoost ==
    /\ calc.pc = "raw"
    /\ calc' = [calc EXCEPT !.pc = "corrected",
                            !.corrected = correctedFemaleProb(calc.rawFemaleProb, calc.boost)]
    /\ UNCHANGED <<hookVars, queueVars, adq, page, occ, tracker>>

InitBoost ==
    DetOff /\ FilterOff /\ AgeOff /\ QueueInit /\ PageOff /\ AdqOff /\ OccOff /\ TrackerOff /\ BoostInit

SpecBoost == InitBoost /\ [][ApplyBoost]_vars

----------------------------------------------------------------------------
(* The score thresholds detectFaces hands to the detectors: useAdQueue.ts
   lines 444-445 (pass 1) and 493-512 (pass 2), in hundredths, for every
   sensitivity of the configured range 0.2 to 0.6 (ad.ts line 92). *)

DrawnSensitivities == 20 .. 60

\* Line 445: Math.max(config.sensitivity - 0.05, 0.15).
detectionThreshold(sensitivity) == Max(sensitivity - 5, 15)

\* Lines 500 and 511: Math.max(config.sensitivity - 0.1, 0.2).
RescueThreshold(sensitivity) == Max(sensitivity - 10, 20)

ThresholdInit ==
    \E sensitivity \in DrawnSensitivities, detector \in {"ssd", "dual"}, ssd \in BOOLEAN :
        calc = [pc |-> "config", sensitivity |-> sensitivity, detector |-> detector,
                ssdLoaded |-> ssd, pass1 |-> 0, pass2 |-> 0]

\* Lines 452-467: pass 1 is invoked with detectionThreshold.
ThresholdPass1 ==
    /\ calc.pc = "config"
    /\ calc' = [calc EXCEPT !.pc = "pass1", !.pass1 = detectionThreshold(calc.sensitivity)]
    /\ UNCHANGED <<hookVars, queueVars, adq, page, occ, tracker>>

\* Lines 474-512: pass 1 found nothing in CCTV mode and the rescue detector
\* (SSD when loaded, else TinyFace 608) is invoked with the rescue threshold.
ThresholdPass2 ==
    /\ calc.pc = "pass1"
    /\ calc' = [calc EXCEPT !.pc = "pass2", !.pass2 = RescueThreshold(calc.sensitivity)]
    /\ UNCHANGED <<hookVars, queueVars, adq, page, occ, tracker>>

InitThreshold ==
    DetOff /\ FilterOff /\ AgeOff /\ QueueInit /\ PageOff /\ AdqOff /\ OccOff /\ TrackerOff /\ ThresholdInit

SpecThreshold == InitThreshold /\ [][ThresholdPass1 \/ ThresholdPass2]_vars

----------------------------------------------------------------------------
(* The tracking ids within one cycle: processDetections, lines 380-388,
   applied to two raw detections of one 640x480 frame. *)

\* Two faces as the detector reports them: corner and side of the box.
DrawnFacePairs ==
    LET faces == {[FaceAt(p[1], p[2]) EXCEPT !.width = side, !.height = side] :
                     p \in {<<0, 0>>, <<300, 150>>, <<301, 150>>}, side \in {80, 100}}
    IN {<<a, b>> : a \in faces, b \in faces}

IdsInit ==
    \E pair \in DrawnFacePairs, s \in DrawnScales, config \in DrawnConfigs :
        calc = [pc |-> "raw", detections |-> pair, scaleBack |-> s, config |-> config,
                results |-> <<>>]

\* One cycle's raw detections are filtered and mapped to results.
IdsCycle ==
    /\ calc.pc = "raw"
    /\ calc' = [calc EXCEPT
                   !.pc = "results",
                   !.results = processDetections(calc.detections, 640, 480, calc.scaleBack,
                                                 calc.config, "tiny",
                                                 [x |-> 0, y |-> 0]).results]
    /\ UNCHANGED <<hookVars, queueVars, adq, page, occ, tracker>>

InitIds ==
    DetOff /\ FilterOff /\ AgeOff /\ QueueInit /\ PageOff /\ AdqOff /\ OccOff /\ TrackerOff /\ IdsInit

SpecIds == InitIds /\ [][IdsCycle]_vars

----------------------------------------------------------------------------
(* The useAdQueue hook with its log (useAdQueue.ts lines 5-111) *)

\* Line 15: the log keeps its newest 50 entries.
LogLimit == 50
\* Line 86: playedAds keeps the 5 most recently played ids.
PlayedLimit == 5
\* addLog calls made in one behaviour of the hook.
MaxLogged == 52

\* addLog without the limit on the log.
addLogUncapped(h) ==
    [h EXCEPT !.logs = <<h.clock>> \o @, !.clock = @ + 1]

\* Lines 10-16: addLog.  A log entry is represented by its timestamp, the
\* number of entries logged before it.
addLog(h) ==
    [h EXCEPT !.logs = Slice(<<h.clock>> \o @, LogLimit), !.clock = @ + 1]

\* k successive addLog calls.
RECURSIVE addLogs(_, _)
addLogs(h, k) == IF k = 0 THEN h ELSE addLogs(addLog(h), k - 1)

\* Lines 18-52: the number of reasons scoreAd gives for the score of ad.
reasonCount(ad, demographics, played) ==
    LET dominantGender == IF demographics.male >= demographics.female THEN "male" ELSE "female"
        dominantAge == IF demographics.young >= demographics.adult THEN "young" ELSE "adult"
        recentIndex == IndexOf(played, ad.id)
    IN (IF ad.gender \in {"all", dominantGender} THEN 1 ELSE 0)
           + (IF ad.ageGroup \in {"all", dominantAge} THEN 1 ELSE 0)
           + (IF recentIndex # -1 /\ Max(0, 3 - recentIndex) > 0 THEN 1 ELSE 0)

\* A rotation that drops the first ad.
RotateDropping(prev) == IF prev = <<>> THEN <<"undefined">> ELSE Tail(prev)

\* Line 83: prev => [...prev.slice(1), prev[0]].
Rotate(prev) == IF prev = <<>> THEN <<"undefined">> ELSE Tail(prev) \o <<Head(prev)>>

\* Lines 54-71: reorderQueue(demographics), called in an event handler.  The
\* callback reads queue and (through scoreAd) playedAds as captured at the
\* render the handler belongs to, and its setQueue installs a value; h is
\* the state the handler's updates have produced so far.
reorderQueue(h, render, demographics) ==
    LET newQueue == SortByScore(render.queue, demographics, render.playedAds)
        logged == IF newQueue = <<>> THEN 0
                  ELSE 1 + reasonCount(newQueue[1], demographics, render.playedAds)
    IN addLogs([h EXCEPT !.queue = newQueue], logged)

\* getNextAd without the rotation of the queue.
getNextAdKeepsOrder(h, render) ==
    addLog([h EXCEPT !.playedAds = Slice(<<render.queue[1].id>> \o @, PlayedLimit),
                     !.last = [op |-> "getNextAd", nextAd |-> render.queue[1].id,
                               rotated |-> "none"]])

\* Lines 73-92: getNextAd(), called in an event handler.  The returned ad is
\* read from the captured queue, while the rotation and the playedAds update
\* are functional updates of the state produced so far.  The returned id and
\* the id moved to the back are recorded in last.
getNextAd(h, render) ==
    IF Len(render.queue) = 0
    THEN [h EXCEPT !.queue = sampleAds, !.playedAds = <<>>,
                   !.last = [op |-> "getNextAd", nextAd |-> sampleAds[1].id,
                             rotated |-> "none"]]
    ELSE addLog([h EXCEPT !.queue = Rotate(@),
                          !.playedAds = Slice(<<render.queue[1].id>> \o @, PlayedLimit),
                          !.last = [op |-> "getNextAd", nextAd |-> render.queue[1].id,
                                    rotated |-> IF h.queue = <<>> THEN "undefined"
                                                ELSE Head(h.queue).id]])

\* The hook after its first render (lines 6-8), with the ids returned by the
\* getNextAd calls since the last reorderQueue, the last Len(sampleAds) of them.
HookInit ==
    adq = [kind |-> "hook", queue |-> sampleAds, playedAds |-> <<>>, logs |-> <<>>,
           clock |-> 0, returned |-> <<>>, last |-> [op |-> "none"]]

\* A handler calls addLog.
CallAddLog ==
    /\ adq.kind = "hook"
    /\ adq.clock < MaxLogged
    /\ adq' = [addLog(adq) EXCEPT !.last = [op |-> "addLog"]]
    /\ UNCHANGED <<hookVars, queueVars, page, trackVars>>

\* A handler calls reorderQueue(demographics).
CallReorderQueue(demographics) ==
    /\ adq.kind = "hook"
    /\ adq.clock + 4 <= MaxLogged
    /\ adq' = [reorderQueue(adq, adq, demographics) EXCEPT
                   !.returned = <<>>,
                   !.last = [op |-> "reorderQueue", demographics |-> demographics]]
    /\ UNCHANGED <<hookVars, queueVars, page, trackVars>>

\* A handler calls getNextAd().
CallGetNextAd ==
    /\ adq.kind = "hook"
    /\ adq.clock < MaxLogged
    /\ LET h == getNextAd(adq, adq)
           all == adq.returned \o <<h.last.nextAd>>
       IN adq' = [h EXCEPT !.returned =
                               SubSeq(all, Max(1, Len(all) - Len(sampleAds) + 1), Len(all))]
    /\ UNCHANGED <<hookVars, queueVars, page, trackVars>>

QueueNext ==
    \/ CallAddLog
    \/ \E demographics \in DrawnDemographics : CallReorderQueue(demographics)
    \/ CallGetNextAd

InitQueue == DetOff /\ FilterOff /\ AgeOff /\ QueueInit /\ PageOff /\ TrackOff /\ HookInit

SpecQueue == InitQueue /\ [][QueueNext]_vars

----------------------------------------------------------------------------
(* The page playing from the queue: SmartAdsSystem.tsx *)

\* Ads that end in one behaviour of the page.
MaxEnded == 4

\* The detections one ad has collected in adDetectionsRef, by their counts.
DrawnAdDetections ==
    {[male |-> 0, female |-> 0, young |-> 0, adult |-> 0],
     [male |-> 1, female |-> 0, young |-> 1, adult |-> 0],
     [male |-> 0, female |-> 2, young |-> 0, adult |-> 2]}

\* The page before its mount effect has run.
AdsInit ==
    adq = [kind |-> "page", queue |-> sampleAds, playedAds |-> <<>>, logs |-> <<>>,
           clock |-> 0, last |-> [op |-> "none"], currentAd |-> "none",
           demographics |-> [male |-> 0, female |-> 0, young |-> 0, adult |-> 0],
           ended |-> 0]

\* SmartAdsSystem.tsx lines 35-43: the mount effect plays the first ad.
SmartAdsMount ==
    /\ adq.kind = "page"
    /\ adq.currentAd = "none"
    /\ LET h == getNextAd(adq, adq)
       IN adq' = [addLogs(h, 2) EXCEPT !.currentAd = h.last.nextAd]
    /\ UNCHANGED <<hookVars, queueVars, page, trackVars>>

\* SmartAdsSystem.tsx lines 128-165: handleAdEnded, with the detections the
\* ad has collected.  reorderQueue and getNextAd are the callbacks of the
\* render the handler belongs to, so both read the queue of that render.
\* last records whether the queue was reordered and the first ad of the
\* reordered queue.
SmartAdsHandleAdEnded(h0, detections) ==
    LET detected == detections.male + detections.female > 0
        updated ==
            [male |-> adq.demographics.male + detections.male,
             female |-> adq.demographics.female + detections.female,
             young |-> adq.demographics.young + detections.young,
             adult |-> adq.demographics.adult + detections.adult]
        h1 == IF detected
              THEN reorderQueue(addLog([h0 EXCEPT !.demographics = updated]),
                                adq, updated)
              ELSE h0
        h2 == getNextAd(h1, adq)
    IN [addLogs(h2, 2) EXCEPT
            !.currentAd = h2.last.nextAd,
            !.ended = @ + 1,
            !.last = [op |-> "handleAdEnded", nextAd |-> h2.last.nextAd,
                      rotated |-> h2.last.rotated, reordered |-> detected,
                      top |-> h1.queue[1].id]]

\* The player's onEnded.
SmartAdsAdEnded(detections) ==
    /\ adq.kind = "page"
    /\ adq.currentAd # "none"
    /\ adq.ended < MaxEnded
    /\ adq' = SmartAdsHandleAdEnded(adq, detections)
    /\ UNCHANGED <<hookVars, queueVars, page, trackVars>>

\* SmartAdsSystem.tsx lines 167-170: handleSkip logs and ends the ad.
SmartAdsHandleSkip(detections) ==
    /\ adq.kind = "page"
    /\ adq.currentAd # "none"
    /\ adq.ended < MaxEnded
    /\ adq' = SmartAdsHandleAdEnded(addLog(adq), detections)
    /\ UNCHANGED <<hookVars, queueVars, page, trackVars>>

AdsNext ==
    \/ SmartAdsMount
    \/ \E detections \in DrawnAdDetections : SmartAdsAdEnded(detections)
    \/ \E detections \in DrawnAdDetections : SmartAdsHandleSkip(detections)

InitAds == DetOff /\ FilterOff /\ AgeOff /\ QueueInit /\ PageOff /\ TrackOff /\ AdsInit

SpecAds == InitAds /\ [][AdsNext]_vars

----------------------------------------------------------------------------
(* The capture window sliders of the settings dialog: SettingsPanel.tsx
   lines 39-67 and 147-160.  The dialog starts from the page's settings
   (part_008 lines 24-27); last is the handler that ran last. *)

\* Line 153: the values of the start slider, min 10, max 90, step 5.
StartSliderValues == {10 + 5 * k : k \in 0 .. 16}
\* Line 159: the values of the end slider, min 20, max 98, step 2.
EndSliderValues == {20 + 2 * k : k \in 0 .. 39}

\* handleStartChange moving the end only up to the new start.
handleStartChangeNoGap(prev, newStart) ==
    [prev EXCEPT !.startPercent = newStart,
                 !.endPercent = Max(prev.endPercent, newStart),
                 !.last = "handleStartChange"]

\* Lines 51-58: handleStartChange.
handleStartChange(prev, newStart) ==
    [prev EXCEPT !.startPercent = newStart,
                 !.endPercent = Max(prev.endPercent, newStart + 5),
                 !.last = "handleStartChange"]

\* Lines 60-67: handleEndChange.
handleEndChange(prev, newEnd) ==
    [prev EXCEPT !.endPercent = newEnd,
                 !.startPercent = Min(prev.startPercent, newEnd - 5),
                 !.last = "handleEndChange"]

\* Line 39: useState(settings), with the page's default settings.
SettingsInit ==
    calc = [pc |-> "settings", startPercent |-> 60, endPercent |-> 100, last |-> "none"]

StartSliderMoves(newStart) ==
    /\ calc.pc = "settings"
    /\ calc' = handleStartChange(calc, newStart)
    /\ UNCHANGED <<hookVars, queueVars, adq, page, occ, tracker>>

EndSliderMoves(newEnd) ==
    /\ calc.pc = "settings"
    /\ calc' = handleEndChange(calc, newEnd)
    /\ UNCHANGED <<hookVars, queueVars, adq, page, occ, tracker>>

SettingsNext ==
    \/ \E newStart \in StartSliderValues : StartSliderMoves(newStart)
    \/ \E newEnd \in EndSliderValues : EndSliderMoves(newEnd)

InitSettings ==
    DetOff /\ FilterOff /\ AgeOff /\ QueueInit /\ PageOff /\ AdqOff /\ OccOff /\ TrackerOff /\ SettingsInit

SpecSettings == InitSettings /\ [][SettingsNext]_vars

----------------------------------------------------------------------------
(* The transformers.js hook: src/src/hooks/useFaceDetection.ts, lines
   120-257.  detectFaceRegions (lines 9-98) returns a drawn number of face
   regions; the model's logits for a face are drawn, the gender logit in
   hundredths.  last is the last detectFaces call: whether the load had
   failed when it was made, and what it returned. *)

\* Face regions detectFaceRegions returns for one frame.
MaxRegions == 2

\* HTMLMediaElement.readyState.
ReadyStates == 0 .. 4

\* What the model gives for one face: its two logits, or an error while the
\* face is processed (lines 208-243).
DrawnFaceOutputs ==
    {[kind |-> "error"]}
        \cup {[kind |-> "logits", ageLogits |-> a, genderLogits |-> g] :
                  a \in {20, 40}, g \in {20, 80}}

\* Lines 187-195: the result reported for a face region without the model.
RegionOnlyResult ==
    [gender |-> "male", age |-> 25, ageGroup |-> "young", confidence |-> 50]

\* Lines 229-241: the result for a face from the model's logits.
ModelResult(out) ==
    LET faceAge == Min(Max(out.ageLogits, 1), 100)
    IN [gender |-> IF out.genderLogits >= 50 THEN "female" ELSE "male",
        age |-> faceAge,
        ageGroup |-> IF faceAge < 35 THEN "young" ELSE "adult",
        confidence |-> Max(out.genderLogits, 100 - out.genderLogits)]

\* Lines 207-246: the loop over the face regions; a face whose processing
\* throws is skipped.
RECURSIVE ModelResults(_)
ModelResults(outs) ==
    IF outs = <<>> THEN <<>>
    ELSE (IF Head(outs).kind = "error" THEN <<>> ELSE <<ModelResult(Head(outs))>>)
             \o ModelResults(Tail(outs))

\* Lines 164-257: detectFaces on a video element with the given readyState,
\* in which detectFaceRegions finds Len(outs) regions.
detectFaces(h, readyState, outs) ==
    IF readyState < 2 THEN <<>>
    ELSE IF Len(outs) = 0 THEN <<>>
    ELSE IF ~h.isModelLoaded \/ ~h.modelRef
    THEN [i \in 1 .. Len(outs) |-> RegionOnlyResult]
    ELSE ModelResults(outs)

\* Lines 120-126: the hook after its first render.
HfInit ==
    calc = [pc |-> "hf", loadPc |-> "idle", loadingRef |-> FALSE, isModelLoaded |-> FALSE,
            isLoading |-> TRUE, error |-> "none", modelRef |-> FALSE,
            last |-> [called |-> FALSE]]

\* Lines 128-138: the effect runs loadModels up to its await.
HfLoadModels ==
    /\ calc.pc = "hf"
    /\ calc' = IF calc.loadingRef THEN calc
               ELSE [calc EXCEPT !.loadingRef = TRUE, !.loadPc = "loading"]
    /\ UNCHANGED <<hookVars, queueVars, adq, page, occ, tracker>>

\* Lines 139-159: the model and the processor are loaded, or loading fails.
HfModelsSettle(ok) ==
    /\ calc.pc = "hf"
    /\ calc.loadPc = "loading"
    /\ calc' = IF ok
               THEN [calc EXCEPT !.loadPc = "done", !.modelRef = TRUE,
                                 !.isModelLoaded = TRUE, !.error = "none",
                                 !.isLoading = FALSE]
               ELSE [calc EXCEPT !.loadPc = "done", !.isModelLoaded = FALSE,
                                 !.error = "AI models unavailable. Detection disabled.",
                                 !.isLoading = FALSE]
    /\ UNCHANGED <<hookVars, queueVars, adq, page, occ, tracker>>

\* A caller awaits detectFaces(videoElement).
HfDetectFaces(readyState, outs) ==
    /\ calc.pc = "hf"
    /\ calc' = [calc EXCEPT !.last = [called |-> TRUE,
                                      readyState |-> readyState,
                                      failed |-> calc.error # "none",
                                      regions |-> Len(outs),
                                      results |-> detectFaces(calc, readyState, outs)]]
    /\ UNCHANGED <<hookVars, queueVars, adq, page, occ, tracker>>

HfNext ==
    \/ HfLoadModels
    \/ \E ok \in BOOLEAN : HfModelsSettle(ok)
    \/ \E readyState \in ReadyStates, n \in 0 .. MaxRegions :
           \E outs \in [1 .. n -> DrawnFaceOutputs] : HfDetectFaces(readyState, outs)

InitHf ==
    DetOff /\ FilterOff /\ AgeOff /\ QueueInit /\ PageOff /\ AdqOff /\ OccOff /\ TrackerOff /\ HfInit

SpecHf == InitHf /\ [][HfNext]_vars

----------------------------------------------------------------------------
(* Claims about the detection cycle *)

\* C1: a call made while an earlier detection cycle has not completed
\* invokes no detector, so that at no time two detector invocations are
\* pending for the same video source.
C1_AtMostOneInvocationPending == PendingInvocations <= 1

\* C2: a cycle that set the in-flight guard terminates.  When the timeout
\* fires on a cycle whose inference is still pending, detectFaces resolves
\* with an empty result and the guard is false; the call that follows a
\* timeout, on a ready video, sets the guard and invokes the pass 1 detector;
\* and whenever the guard is set it is eventually released.
C2_TimeoutReleasesGuard ==
    /\ [][BagCardinality(abandoned') > BagCardinality(abandoned)
            => (~inFlightRef' /\ resolved' = [kind |-> "timeout", n |-> 0])]_vars
    /\ [][(resolved.kind = "timeout" /\ racing.pc = "free" /\ isModelLoaded
             /\ DetectFaces("ready"))
            => (inFlightRef' /\ racing'.pc = "pass1" /\ racing'.invoked = 1)]_vars
    /\ (inFlightRef ~> ~inFlightRef)

\* A cycle has timed out and the next call is running its pass 1.
C2_Witness ==
    /\ resolved.kind = "timeout"
    /\ BagCardinality(abandoned) >= 1
    /\ inFlightRef
    /\ racing.pc = "pass1"

\* C3: when a detector invocation or the preprocessing step throws,
\* detectFaces resolves with an empty result, never rejects, and releases the
\* guard (the guard is set exactly while a closure races), so nothing
\* reaches the interval callback.
C3_ErrorsContained ==
    /\ ~unhandledRejection
    /\ resolved.kind # "rejected"
    /\ resolved.kind = "caught" => resolved.n = 0
    /\ inFlightRef <=> racing.pc \in Pending

\* A cycle has thrown and the tick after it is running a new cycle.
C3_Witness == resolved.kind = "caught" /\ inFlightRef /\ racing.pc = "pass1"

\* C4: a call on a missing or not ready video element, or before the models
\* are loaded, returns an empty result and changes nothing else: no closure
\* is started or resumed, the guard, the debug info and the FPS statistics
\* keep their values.
C4_SkipChangesNothing ==
    [][\A v \in VideoStates :
          ((v # "ready" \/ ~isModelLoaded) /\ DetectFaces(v))
            => /\ resolved'.kind \in {"notReady", "busy"}
               /\ resolved'.n = 0
               /\ UNCHANGED <<inFlightRef, racing, abandoned, statsRef, debugInfoRef>>]_vars

\* A call was skipped for a video that is not ready, after a cycle had
\* written the debug info and counted a frame.
C4_Witness ==
    /\ resolved.kind = "notReady"
    /\ ~inFlightRef
    /\ debugInfoRef.written
    /\ statsRef.frameCount > 0

RescueCase(pass1Raw) == cfg.isCCTV /\ cfg.detector # "tiny" /\ pass1Raw = 0

\* C5: pass 2 is started only after pass 1 returned no raw detection, in
\* CCTV mode and with a detector mode other than 'tiny'; in every other case
\* the cycle makes exactly one detector invocation (in particular with the
\* webcam preset).
C5_Pass2OnlyAsRescue ==
    /\ \A cl \in Closures :
          /\ cl[2].passUsed = 2 => RescueCase(cl[2].pass1Raw)
          /\ ~RescueCase(cl[2].pass1Raw) => cl[2].invoked = 1
          /\ cl[2].invoked >= 1
    /\ lastCycle.outcome = "fulfilled" =>
          /\ lastCycle.passUsed = 2 => RescueCase(lastCycle.pass1Raw)
          /\ ~RescueCase(lastCycle.pass1Raw) =>
                lastCycle.invoked = 1 /\ lastCycle.passUsed = 1
    /\ (cfg.detector = "tiny" /\ ~cfg.isCCTV) =>
          /\ \A cl \in Closures : cl[2].invoked = 1
          /\ lastCycle.outcome = "fulfilled" => lastCycle.invoked = 1

\* A cycle completed after pass 2 invoked a rescue detector.
C5_Witness ==
    /\ lastCycle.outcome = "fulfilled"
    /\ lastCycle.passUsed = 2
    /\ lastCycle.invoked >= 2

\* C6: the debug info written by a completed cycle records the pass whose
\* detections were returned and the detector (tiny or ssd) that produced
\* them.
C6_DebugRecordsProducer ==
    debugInfoRef.written =>
        /\ debugInfoRef.passUsed = lastCycle.passUsed
        /\ debugInfoRef.detectorUsed = lastCycle.producer

----------------------------------------------------------------------------
(* Claims about the filter and the age groups *)

\* The one raw detection of the drawn input and its box in source-frame
\* sixths of a pixel: the upscale undone, the ROI offset added.
TheDetection == fin.detections[1]
SourceBox ==
    [x |-> Sixths(TheDetection.x, fin.scaleBack) + 6 * fin.roiOffset.x,
     y |-> Sixths(TheDetection.y, fin.scaleBack) + 6 * fin.roiOffset.y,
     width |-> Sixths(TheDetection.width, fin.scaleBack),
     height |-> Sixths(TheDetection.height, fin.scaleBack)]

\* The box b (sixths of a pixel) meets the geometric thresholds of config in
\* a vw x vh frame.
GeometryWithin(b, config, vw, vh) ==
    /\ b.width >= 6 * config.minFaceSizePx
    /\ b.height >= 6 * config.minFaceSizePx
    /\ b.width * b.height * 250 >= config.minFaceSizePercent * vw * vh * 9
    /\ 10 * b.width >= config.aspectRatioMin * b.height
    /\ 10 * b.width <= config.aspectRatioMax * b.height
    /\ b.x >= 0
    /\ b.y >= 0
    /\ b.x + b.width <= 6 * vw
    /\ b.y + b.height <= 6 * vh

\* C7: every detection processDetections returns has, in source-frame units,
\* a score of at least min(minFaceScore, sensitivity), a width and a height of
\* at least minFaceSizePx, an area of at least minFaceSizePercent of the
\* frame, an aspect ratio within [aspectRatioMin, aspectRatioMax] and a box
\* inside the frame; and a detection with a score of at least minFaceScore,
\* even below sensitivity, whose box meets the geometric thresholds is
\* returned.
C7_ReturnedMeetThresholds ==
    fpc # "in" =>
        /\ \A i \in 1 .. Len(fout.results) :
             /\ fout.results[i].faceScore = TheDetection.score
             /\ fout.results[i].boundingBox = SourceBox
             /\ fout.results[i].faceScore
                  >= Min(fin.config.minFaceScore, fin.config.sensitivity)
             /\ GeometryWithin(fout.results[i].boundingBox, fin.config,
                               fin.videoWidth, fin.videoHeight)
        /\ (/\ TheDetection.score >= fin.config.minFaceScore
            /\ GeometryWithin(SourceBox, fin.config, fin.videoWidth, fin.videoHeight))
              => Len(fout.results) = 1

\* A detection scoring 0.32 under the CCTV preset (minFaceScore 0.3,
\* sensitivity 0.35), found on a 1.5x upscaled ROI crop, is returned.
C7_Witness ==
    /\ fpc = "filtered"
    /\ fin.config = DEFAULT_CCTV_CONFIG
    /\ TheDetection.score = 32
    /\ fin.scaleBack = 3
    /\ fin.roiOffset.x > 0
    /\ Len(fout.results) = 1

\* C8: no detection processDetections returns covers more than 35% of the
\* frame area.
C8_OversizedRejected ==
    fpc # "in" =>
        \A i \in 1 .. Len(fout.results) :
            fout.results[i].boundingBox.width * fout.results[i].boundingBox.height * 100
                <= 35 * fin.videoWidth * fin.videoHeight * 36

\* C9: a detection returned under the configuration T is returned, with the
\* same result, under every configuration that differs from T only by lower
\* minFaceScore, sensitivity, minFaceSizePx, minFaceSizePercent or
\* aspectRatioMin or by a higher aspectRatioMax.
C9_FilterMonotone ==
    fpc = "relaxed" =>
        \A i \in 1 .. Len(fout.results) :
            \E j \in 1 .. Len(frelaxed.out.results) :
                frelaxed.out.results[j] = fout.results[i]

\* A detection returned under the CCTV preset and again once every threshold
\* is relaxed.
C9_Witness ==
    /\ fpc = "relaxed"
    /\ Len(fout.results) = 1
    /\ frelaxed.config = Relaxed(fin.config, FilterFields)
    /\ frelaxed.out.results = fout.results

\* C10: every integer age gets exactly one group: kid below 13, young from 13
\* to 34, adult from 35.
C10_AgeBucketsTotalExclusive ==
    (apc = "out" /\ age % 10 = 0) =>
        /\ ageGroup \in {"kid", "young", "adult"}
        /\ ageGroup = "kid" <=> age \div 10 < 13
        /\ ageGroup = "young" <=> (13 <= age \div 10 /\ age \div 10 < 35)
        /\ ageGroup = "adult" <=> age \div 10 >= 35

\* Age 13 is young.
C10_Witness == apc = "out" /\ age = 130 /\ ageGroup = "young"

----------------------------------------------------------------------------
(* Claims about the returned boxes, model loading and the capture session *)

\* The detector's box of the cycle's one detection with exactly the
\* transformations of the frame fed to the detector undone, in sixths of a
\* pixel: divided by the upscale and shifted by the ROI corner when the
\* detector ran on the processed canvas, unchanged when it ran on the raw
\* frame.
UndoneBox ==
    LET d == fin.detections[1]
        s == IF fin.canvas THEN fin.upscale ELSE 2
        ox == IF fin.canvas /\ fin.roi.enabled THEN (fin.roi.x * fin.videoWidth) \div 10 ELSE 0
        oy == IF fin.canvas /\ fin.roi.enabled THEN (fin.roi.y * fin.videoHeight) \div 10 ELSE 0
    IN [x |-> (12 * d.x) \div s + 6 * ox, y |-> (12 * d.y) \div s + 6 * oy,
        width |-> (12 * d.width) \div s, height |-> (12 * d.height) \div s]

\* C11: every returned bounding box is the detector's box divided by the
\* upscale factor only if the detector ran on the upscaled canvas and shifted
\* by the ROI corner only if it ran on the ROI-cropped canvas; a pass-1 box is
\* returned unchanged.
C11_BoxMappedBack ==
    fpc = "returned" =>
        \A i \in 1 .. Len(fout.results) : fout.results[i].boundingBox = UndoneBox

C13_LoadFailureIsFinal ==
    /\ []((loadPc = "done" /\ ~isModelLoaded) => error # "none")
    /\ [](error # "none" =>
            /\ ~isModelLoaded
            /\ loadPc = "done"
            /\ PendingInvocations = 0
            /\ ~inFlightRef
            /\ resolved \in {NoResolved, [kind |-> "notReady", n |-> 0]}
            /\ ~debugInfoRef.written
            /\ ENABLED GetNextAd
            /\ \A d \in DrawnDemographics : ENABLED ReorderQueue(d))
    /\ [][error # "none" =>
            /\ UNCHANGED <<loadVars, inFlightRef, racing, abandoned, statsRef, debugInfoRef>>
            /\ resolved' # resolved => resolved' = [kind |-> "notReady", n |-> 0]
            /\ playedAds' # playedAds =>
                  /\ playedAds'[1] = Head(queue).id
                  /\ queue' = Tail(queue) \o <<Head(queue)>>
            /\ (queue' # queue /\ playedAds' = playedAds) =>
                  /\ \E d \in DrawnDemographics :
                        \A i \in 1 .. Len(queue') - 1 :
                            scoreAd(queue'[i], d, playedAds) >= scoreAd(queue'[i + 1], d, playedAds)
                  /\ {queue'[i] : i \in 1 .. Len(queue')} = {queue[i] : i \in 1 .. Len(queue)}
                  /\ Len(queue') = Len(queue)]_vars

\* After a failed load a detectFaces call has resolved empty while ads were
\* played and the queue was reordered.
C13_Witness ==
    /\ error # "none"
    /\ resolved = [kind |-> "notReady", n |-> 0]
    /\ Len(playedAds) >= 2
    /\ queue # sampleAds

----------------------------------------------------------------------------
(* Claims about the page: camera, reordering and published demographics *)

\* C14: the camera stream is held only during a capture session: whenever the
\* page is not capturing (the window ended, the ad ended or was skipped), no
\* media stream has running tracks and the webcam is inactive, whatever the
\* interleaving of stopWebcam with a startWebcam that is still pending.
C14_StreamOnlyWhileCapturing ==
    ~page.isCapturingRef => LiveStreams(page) = 0 /\ ~page.isActive

\* C15: once a capture window in which a viewer was detected has ended, by
\* the time leaving it or by the ad ending or being skipped inside it,
\* reorderQueue has been called exactly once, with that window's counts.
C15_ReorderOncePerWindow ==
    page.window = "closed" /\ page.windowSeen =>
        page.reorders = 1 /\ page.reorderArg = page.windowDemo

\* C16: after a detection cycle completed during capture, the published
\* demographics are the per-category counts of that cycle's results, all
\* zeros for an empty cycle, and male + female = kid + young + adult = the
\* number of current viewers.
C16_DemographicsAreCycleCounts ==
    page.cycle.done =>
        /\ page.demographics = newDemographics(page.cycle.results)
        /\ page.demographics.male + page.demographics.female = Len(page.currentViewers)
        /\ page.demographics.kid + page.demographics.young + page.demographics.adult
               = Len(page.currentViewers)
        /\ Len(page.currentViewers) = Len(page.cycle.results)

\* C17: a face is counted in the published results only once detections have
\* matched in at least minConsecutiveFrames consecutive cycles.
C17_OnlyConfirmedCounted ==
    page.cycle.done /\ Len(page.cycle.results) > 0 =>
        page.seenStreak >= page.minConsecutiveFrames

\* C19: while one face is detected, missed for k <= holdFrames cycles and
\* detected again within maxVelocityPx * k of where it was, a single tracking
\* id is reported throughout: the cycle of the reappearance reports exactly
\* one id and no two cycles report different ids.
C19_OneTrackOneId ==
    /\ \A i, j \in 1 .. Len(occ.reported) :
            Cardinality(occ.reported[i] \cup occ.reported[j]) <= 1
    /\ occ.pc = "done" => Cardinality(occ.reported[Len(occ.reported)]) = 1

----------------------------------------------------------------------------
(* Claims about the temporal tracker *)

\* C18: no live track has been missed more than holdFrames cycles in a row;
\* a track whose consecutive misses exceed holdFrames in a cycle is removed
\* by that cycle and is not in the confirmed snapshot, and a track missed at
\* most holdFrames cycles in a row is kept, held, with that miss count.
C18_TrackExpiry ==
    /\ \A t \in tracker.tracks : t.missedFrames <= tracker.config.holdFrames
    /\ tracker.last.kind = "cycle" =>
           \A p \in tracker.last.missed :
               IF p[2] > tracker.config.holdFrames
               THEN /\ \A t \in tracker.tracks : t.id # p[1]
                    /\ \A t \in currentSnapshot : t.id # p[1]
               ELSE \E t \in tracker.tracks : t.id = p[1] /\ t.missedFrames = p[2]

\* A cycle in which one track expired while another was held.
C18_Witness ==
    /\ tracker.last.kind = "cycle"
    /\ \E p, q \in tracker.last.missed :
           p[2] > tracker.config.holdFrames /\ q[2] <= tracker.config.holdFrames

\* C20: in every tracking cycle no track is in two matches and no detection
\* is in two matches, and the detections without a match are exactly the
\* ones that got a new track each, with consecutiveHits = 1 and
\* missedFrames = 0.
C20_MatchingOneToOne ==
    tracker.last.kind = "cycle" =>
        LET last == tracker.last
            unmatched == {i \in 1 .. Len(last.detections) :
                             \A m \in last.matches : m[2] # i}
            first == CHOOSE c \in last.created : \A d \in last.created : c <= d
            NewAt(i) == {t \in tracker.tracks :
                            /\ t.id \in last.created
                            /\ t.id = first + UnmatchedBelow(i, last.matches)}
        IN /\ \A m, n \in last.matches : (m[1] = n[1]) <=> (m[2] = n[2])
           /\ Cardinality(last.created) = Cardinality(unmatched)
           /\ \A i \in unmatched :
                  /\ Cardinality(NewAt(i)) = 1
                  /\ \A t \in NewAt(i) : /\ t.x = last.detections[i]
                                          /\ t.consecutiveHits = 1
                                          /\ t.missedFrames = 0

\* A cycle with two detections competing for one track: one is matched, the
\* other starts a track.
C20_Witness ==
    /\ tracker.last.kind = "cycle"
    /\ Cardinality(tracker.last.matches) = 1
    /\ Cardinality(tracker.last.created) = 1
    /\ \E t \in tracker.tracks : t.consecutiveHits = 2

----------------------------------------------------------------------------
(* Claims about the bias correction, the pass thresholds and the ids *)

\* C21: for every raw female probability p in [0, 1] and boost factor b in
\* [0, 0.30] the corrected probability is at least p and at most 1.
C21_BoostWithinBounds ==
    calc.pc = "corrected" =>
        /\ calc.corrected >= 100 * calc.rawFemaleProb
        /\ calc.corrected <= 100 * ProbSteps

\* A probability strictly between 0 and 1 raised by the largest boost.
C21_Witness ==
    /\ calc.pc = "corrected"
    /\ calc.boost = MaxBoost
    /\ calc.rawFemaleProb = 1
    /\ calc.corrected > 100 * calc.rawFemaleProb

\* C22: for every sensitivity from 0.2 to 0.6 the score threshold handed to
\* the pass-2 rescue detectors is not higher than the one handed to the
\* pass-1 detector of the same cycle.
C22_RescueThresholdNotHigher ==
    calc.pc = "pass2" => calc.pass2 <= calc.pass1

\* C23: within the results of one detection cycle the tracking ids are
\* pairwise distinct.
C23_TrackingIdsDistinct ==
    calc.pc = "results" =>
        \A i, j \in 1 .. Len(calc.results) :
            i # j => calc.results[i].trackingId # calc.results[j].trackingId

\* C24: model loading runs at most once per hook instance: a load begins
\* only on the first run of the effect, a run during or after loading begins
\* none, and once loading has finished isModelLoaded and ssdLoaded never
\* change again.
C24_LoadsAtMostOnce ==
    /\ [][loadPc' = "backend" /\ loadPc # "backend" => loadPc = "idle" /\ ~loadingRef]_vars
    /\ [][loadPc # "idle" => loadPc' # "idle" /\ loadingRef']_vars
    /\ [][loadPc = "done" =>
              /\ loadPc' = "done"
              /\ isModelLoaded' = isModelLoaded
              /\ ssdLoaded' = ssdLoaded]_vars

\* Loading has finished with both detectors, a cycle has completed since,
\* and a further run of the effect is possible.
C24_Witness ==
    /\ loadPc = "done"
    /\ isModelLoaded /\ ssdLoaded
    /\ lastCycle # NoLastCycle
    /\ ENABLED LoadModelsAgain

\* C25: once a cycle has timed out it is inert.  The closure a timeout has
\* abandoned invokes no further detector pass (the bag of abandoned closures
\* changes only when one is added by a timeout or one settles, never by an
\* abandoned closure moving on to its next detector invocation), and it
\* writes neither the debug info nor the FPS statistics (the closure that
\* last wrote them, recorded in lastCycle, was still racing when it did).
C25_AbandonedCycleIsInert ==
    /\ [](lastCycle.outcome = "fulfilled" => ~lastCycle.abandoned)
    /\ [][BagCardinality(abandoned') = BagCardinality(abandoned)
              => abandoned' = abandoned]_vars

\* C26: when an ad ends with detections recorded, the ad handleAdEnded gets
\* from getNextAd and plays next is the first ad of the queue reorderQueue
\* has just installed, and the ad getNextAd rotates to the back is the ad it
\* returned: no ad goes to the back of the queue unplayed.
C26_NextAdIsTopOfReorderedQueue ==
    (adq.kind = "page" /\ adq.last.op = "handleAdEnded") =>
        /\ adq.last.rotated = adq.last.nextAd
        /\ adq.last.reordered => adq.last.nextAd = adq.last.top

----------------------------------------------------------------------------
(* Claims about the ad queue *)

\* C27: under any sequence of reorderQueue and getNextAd calls the queue
\* holds the ads it started with, each once: the calls only permute it.
C27_QueueKeepsItsAds ==
    adq.kind = "hook" =>
        /\ Len(adq.queue) = Len(sampleAds)
        /\ {adq.queue[i] : i \in 1 .. Len(adq.queue)}
               = {sampleAds[i] : i \in 1 .. Len(sampleAds)}

\* getNextAd has rotated a queue that reorderQueue had reordered, with
\* playedAds full.
C27_Witness ==
    /\ adq.kind = "hook"
    /\ adq.last.op = "getNextAd"
    /\ Len(adq.returned) = 1
    /\ Len(adq.playedAds) = PlayedLimit
    /\ adq.queue # sampleAds

\* The score the ranking rule gives ad: 2 for targeting the dominant gender
\* (1 for targeting all), 2 for targeting the dominant age group (1 for all),
\* less max(0, 3 - index in playedAds) when recently played; tied counts make
\* male and young dominant.
RuleScore(ad, demographics, played) ==
    LET gender == IF demographics.female > demographics.male THEN "female" ELSE "male"
        group == IF demographics.adult > demographics.young THEN "adult" ELSE "young"
        index == IndexOf(played, ad.id)
    IN (CASE ad.gender = "all" -> 1 [] ad.gender = gender -> 2 [] OTHER -> 0)
           + (CASE ad.ageGroup = "all" -> 1 [] ad.ageGroup = group -> 2 [] OTHER -> 0)
           - (IF index = -1 THEN 0 ELSE Max(0, 3 - index))

C29_LogAndPlayedAdsBounded ==
    /\ [](adq.kind = "hook" =>
              /\ Len(adq.logs) <= LogLimit
              /\ \A i \in 1 .. Len(adq.logs) : adq.logs[i] = adq.clock - i
              /\ Len(adq.playedAds) <= PlayedLimit)
    /\ [][adq.kind = "hook" =>
              IF adq'.last.op = "getNextAd" /\ adq'.clock # adq.clock
              THEN /\ adq'.playedAds[1] = adq'.last.nextAd
                   /\ Len(adq'.playedAds) = Min(Len(adq.playedAds) + 1, PlayedLimit)
                   /\ \A i \in 2 .. Len(adq'.playedAds) :
                          adq'.playedAds[i] = adq.playedAds[i - 1]
              ELSE adq'.playedAds = adq.playedAds]_vars

\* The log is full and has dropped its oldest entries, and playedAds is full.
C29_Witness ==
    /\ adq.kind = "hook"
    /\ Len(adq.logs) = LogLimit
    /\ adq.logs[LogLimit] > 0
    /\ Len(adq.playedAds) = PlayedLimit

\* C30: while reorderQueue is not called, getNextAd returns the ads in the
\* cyclic order of the queue: each call returns the first ad of the queue,
\* the ad returned by the call before is then the last of the queue, and any
\* Len(sampleAds) consecutive calls return every ad exactly once.
C30_CyclicOrder ==
    /\ [](adq.kind = "hook" /\ Len(adq.returned) = Len(sampleAds) =>
              \A k \in 1 .. Len(sampleAds) :
                  Cardinality({i \in 1 .. Len(adq.returned) :
                                   adq.returned[i] = sampleAds[k].id}) = 1)
    /\ [][(adq.kind = "hook" /\ adq'.last.op = "getNextAd" /\ adq'.clock # adq.clock) =>
              /\ adq'.last.nextAd = adq.queue[1].id
              /\ adq.returned # <<>> =>
                     adq.queue[Len(adq.queue)].id = adq.returned[Len(adq.returned)]]_vars

\* Len(sampleAds) getNextAd calls have been made since a reorderQueue that
\* changed the order of the queue.
C30_Witness ==
    /\ adq.kind = "hook"
    /\ Len(adq.returned) = Len(sampleAds)
    /\ adq.returned[1] # sampleAds[1].id
    /\ Len(adq.playedAds) = PlayedLimit
    /\ adq.last.op = "getNextAd"

----------------------------------------------------------------------------
(* Claims about the page: late results, the interval timer and the modes *)

\* C33: a detection cycle whose result arrives after the capture session has
\* ended (isCapturingRef is false when detectFaces resolves) changes neither
\* the published demographics, nor the current viewers, nor
\* lastDemographicsRef.
C33_LateResultIgnored ==
    [][(page.kind = "on" /\ page'.detecting < page.detecting /\ ~page.isCapturingRef) =>
           /\ page'.demographics = page.demographics
           /\ page'.currentViewers = page.currentViewers
           /\ page'.lastDemographicsRef = page.lastDemographicsRef]_vars

\* C34: the counts handed to reorderQueue at the end of a capture window are
\* the counts of a detection made in that window: a window in which no viewer
\* was detected causes no reorder.
C34_ReorderFromThisWindowOnly ==
    (page.kind = "on" /\ page.window = "closed" /\ page.reorders > 0) =>
        page.windowSeen /\ page.reorderArg = page.windowDemo

\* C35: the detection interval timer, of which the ref holds at most one, is
\* active only during a capture session: once stopDetectionLoop has run at
\* the end of the window or of the ad, no interval timer is active until the
\* next capture starts, however the delayed startDetectionLoop is ordered
\* relative to the stop.
C35_NoIntervalAfterStop ==
    (page.kind = "on" /\ ~page.isCapturingRef) => ~page.captureIntervalRef

\* C31: while manual mode is enabled, detection is disabled: isCapturingRef
\* is false, the video source is not active and no step invokes detectFaces,
\* whichever way the toggle is interleaved with a source start that is still
\* pending (a test start or the startWebcam of the capture window).
C31_ManualModeDisablesDetection ==
    /\ [](page.manualMode => ~page.isCapturingRef /\ ~page.isActive)
    /\ [][page.manualMode => page'.detecting <= page.detecting]_vars

\* C32: once a test start has succeeded, detection stays active
\* (isCapturingRef set, the loop running or its 500 ms timer set, the video
\* source active) and testMode stays true until stopTestMode runs; a time
\* update of the ad outside its capture window does not end it.
C32_TestSessionStaysActive ==
    page.testSession =>
        /\ page.testMode
        /\ page.isCapturingRef
        /\ page.isActive
        /\ page.captureIntervalRef \/ page.loopTimers > 0

----------------------------------------------------------------------------
(* Claims about the settings dialog and the transformers.js hook *)

\* C36: once the local settings are inside the slider ranges (start 10 to
\* 90, end 20 to 98) with startPercent + 5 <= endPercent, every change of the
\* start slider and of the end slider leaves them with
\* startPercent + 5 <= endPercent, startPercent >= 10 and endPercent <= 98.
C36_WindowStaysValid ==
    [][(/\ calc.pc = "settings"
        /\ calc.startPercent \in 10 .. 90
        /\ calc.endPercent \in 20 .. 98
        /\ calc.startPercent + 5 <= calc.endPercent) =>
           /\ calc'.startPercent + 5 <= calc'.endPercent
           /\ calc'.startPercent >= 10
           /\ calc'.endPercent <= 98]_vars

\* The end slider at its minimum has pulled the start down to 15, and the
\* start slider at its maximum has pushed the end up to 95.
C36_Witness ==
    /\ calc.pc = "settings"
    /\ \/ calc.last = "handleEndChange" /\ calc.endPercent = 20 /\ calc.startPercent = 15
       \/ calc.last = "handleStartChange" /\ calc.startPercent = 90 /\ calc.endPercent = 95

\* C37: once model loading has failed in the transformers.js hook, detection
\* is disabled: every detectFaces call returns an empty result, so no viewer
\* is reported with a gender or an age group.
C37_FailedLoadDisablesDetection ==
    (calc.pc = "hf" /\ calc.last.called /\ calc.last.failed) => calc.last.results = <<>>

============================================================================
